---------------------------- MODULE Spec2Model ----------------------------
(***************************************************************************)
(* Model of the data-acquisition and aggregation engine of                 *)
(* tier1-traders-watch:                                                    *)
(*   - fetchWithRetry           (scripts/polymarket_api.js)                *)
(*   - batchFetch / processNext (scripts/polymarket_api.js)                *)
(*   - fetchAllPortfolios, aggregatePortfolios                             *)
(*                              (scripts/compute_aggregates.js)            *)
(*   - processRecentChanges, computeAll, main                              *)
(*                              (scripts/compute_aggregates.js)            *)
(* The specifications share the variables: SpecRetry runs one              *)
(* fetchWithRetry call, SpecBatch one batchFetch call, SpecRun the         *)
(* portfolio part of computeAll over every shape of trader list, SpecMain  *)
(* a whole run of main for a list of two traders, SpecTwice two calls of   *)
(* aggregatePortfolios on the same arguments, SpecView the page's          *)
(* calculatePositionChanges (docs/assets/app.js) over a loaded document.   *)
(* The variables of the parts a specification does not run keep their idle *)
(* values.                                                                 *)
(***************************************************************************)
EXTENDS Integers, Sequences, FiniteSets, TLC

VARIABLES
  \* ---- fetchWithRetry ----
  rcfg,        \* the config object: 0 stands for an unset (falsy) option
  rpc,         \* "idle" | "request" | "backoff" | "returned" | "thrown"
  attempt,     \* the loop counter of fetchWithRetry
  responses,   \* what fetch() answered, one entry per request made
  sleeps,      \* the delays of the backoff sleeps taken, in order
  rresult,     \* "none" | "json" | "undefined" | "error"
  \* ---- batchFetch ----
  addresses,   \* the input list
  concurrency, \* the concurrency argument
  queue,       \* const queue = [...addresses]
  inFlight,    \* const inFlight = new Set()
  results,     \* const results = new Map(): address -> result entry
  tasks,       \* the processNext calls made so far, in launch order
  bpc,         \* "idle" | "run" | "sleep" | "returned"
  \* ---- fetchAllPortfolios / aggregatePortfolios ----
  traders,          \* the trader list
  config,           \* the run's config object
  positionsResults, \* result map of the positions batchFetch
  valuesResults,    \* result map of the value batchFetch
  traderPortfolios, \* the object built by fetchAllPortfolios (insertion order)
  activity,         \* the list returned by fetchAllActivity
  aggregatedPortfolio, \* what aggregatePortfolios returned
  ppc,              \* "idle" | "start" | "positions" | "values" | "built" |
                    \* "activity" | "aggregated" | "windowed" | "computed" |
                    \* "exited" | "again"
  clock,            \* the last reading of Math.floor(Date.now() / 1000)
  \* ---- processRecentChanges / computeAll / main ----
  recentChanges,    \* what processRecentChanges returned
  metadata,         \* the metadata object of computeAll
  written,          \* the documents written by writeJSON, in order
  exitCode,         \* the argument of process.exit, NoExit while running
  failedAt,         \* "none", or the step whose exception main caught
  secondCall,       \* what a second aggregatePortfolios call returned
  \* ---- the page (docs/assets/app.js) ----
  loaded,           \* recent_changes.json as loadData last fetched it
  callLog,          \* the calculatePositionChanges calls made, with results
  \* ---- loadConfig / fetchAllActivity / the fetch functions ----
  configFile,       \* config.json: its options, or Absent
  effective,        \* the option values the engine works with
  activityResults,  \* result map of the activity batchFetch (settling order)
  fetchKind         \* the fetch function batchFetch was handed

retryVars == <<rcfg, rpc, attempt, responses, sleeps, rresult>>
batchVars == <<addresses, concurrency, queue, inFlight, results, tasks, bpc>>
runVars   == <<traders, config, positionsResults, valuesResults,
               traderPortfolios, activity, aggregatedPortfolio, ppc, clock>>
mainVars  == <<recentChanges, metadata, written, exitCode, failedAt,
               secondCall>>
viewVars  == <<loaded, callLog>>
loadVars  == <<configFile, effective, activityResults, fetchKind>>
vars      == <<retryVars, batchVars, runVars, mainVars, viewVars, loadVars>>

(***************************************************************************)
(* Bounds of the model.                                                    *)
(***************************************************************************)
MaxRetryCfg == 4      \* largest configured retry_attempts
MaxBaseCfg  == 2      \* largest configured retry_base_delay_ms
MaxAddrs    == 3      \* longest address list handed to batchFetch
MaxConc     == 2      \* largest concurrency argument
MaxTraders  == 2      \* longest trader list

(***************************************************************************)
(* Program constants.                                                      *)
(***************************************************************************)
DefaultRetryAttempts == 3
DefaultBaseDelay     == 1000

RetryIdle ==
  /\ rcfg = [retry_attempts |-> 0, retry_base_delay_ms |-> 0]
  /\ rpc = "idle"
  /\ attempt = 0
  /\ responses = <<>>
  /\ sleeps = <<>>
  /\ rresult = "none"

BatchIdle ==
  /\ addresses = <<>>
  /\ concurrency = 0
  /\ queue = <<>>
  /\ inFlight = {}
  /\ results = <<>>
  /\ tasks = <<>>
  /\ bpc = "idle"

RunIdle ==
  /\ traders = <<>>
  /\ config = [min_usd_filter |-> 0]
  /\ positionsResults = <<>>
  /\ valuesResults = <<>>
  /\ traderPortfolios = <<>>
  /\ activity = <<>>
  /\ aggregatedPortfolio = [positions |-> <<>>]
  /\ ppc = "idle"
  /\ clock = 0
  /\ recentChanges = [changes |-> <<>>]
  /\ metadata = [trader_count |-> 0]
  /\ written = <<>>
  /\ exitCode = 0 - 1
  /\ failedAt = "none"
  /\ secondCall = [positions |-> <<>>]

ViewIdle ==
  /\ loaded = [changes |-> <<>>]
  /\ callLog = <<>>

LoadIdle ==
  /\ configFile = "none"
  /\ effective = "none"
  /\ activityResults = <<>>
  /\ fetchKind = "none"

(***************************************************************************)
(*                           fetchWithRetry                                *)
(***************************************************************************)

\* A response of fetch(): status 0 stands for a transport-level failure (the
\* fetch promise rejects); jsonOk says whether response.json() parses.
Responses ==
  { [status |-> s, jsonOk |-> TRUE] : s \in {0, 200, 404, 429, 500, 503} }
    \cup { [status |-> 200, jsonOk |-> FALSE] }

\* const maxRetries = config.retry_attempts || 3;
maxRetries(c) ==
  IF c.retry_attempts = 0 THEN DefaultRetryAttempts ELSE c.retry_attempts

\* const baseDelay = config.retry_base_delay_ms || 1000;
baseDelay(c) ==
  IF c.retry_base_delay_ms = 0 THEN DefaultBaseDelay ELSE c.retry_base_delay_ms

\* const delay = baseDelay * Math.pow(2, attempt);
ConstantDelay(c, a) == baseDelay(c)
delay(c, a) == baseDelay(c) * (2 ^ a)

\* response.ok
ResponseOk(r) == r.status >= 200 /\ r.status <= 299

\* The branches "status === 429" and "status >= 500": sleep, then continue.
RetryableStatus(r) == r.status = 429 \/ r.status >= 500

\* What reaches the catch block: a rejected fetch, the Error thrown for a
\* response that is not ok, or a response.json() that throws.
Caught(r) ==
  \/ r.status = 0
  \/ ~RetryableStatus(r) /\ ~ResponseOk(r)
  \/ ~RetryableStatus(r) /\ ResponseOk(r) /\ ~r.jsonOk

InitRetry ==
  /\ rcfg \in [retry_attempts : 0..MaxRetryCfg, retry_base_delay_ms : 0..MaxBaseCfg]
  /\ rpc = "request"
  /\ attempt = 0
  /\ responses = <<>>
  /\ sleeps = <<>>
  /\ rresult = "none"
  /\ BatchIdle
  /\ RunIdle
  /\ ViewIdle
  /\ LoadIdle

\* One pass through the loop body, up to its next suspension point or exit:
\* the request is answered with r.
Request(r) ==
  /\ rpc = "request"
  /\ attempt < maxRetries(rcfg)
  /\ responses' = Append(responses, r)
  /\ IF r.status # 0 /\ RetryableStatus(r)
       THEN \* await sleep(delay); continue
            /\ sleeps' = Append(sleeps, delay(rcfg, attempt))
            /\ rpc' = "backoff"
            /\ rresult' = rresult
       ELSE IF Caught(r)
         THEN IF attempt = maxRetries(rcfg) - 1
                THEN \* throw error
                     /\ rpc' = "thrown"
                     /\ rresult' = "error"
                     /\ sleeps' = sleeps
                ELSE \* await sleep(delay), then the next iteration
                     /\ sleeps' = Append(sleeps, delay(rcfg, attempt))
                     /\ rpc' = "backoff"
                     /\ rresult' = rresult
         ELSE \* return await response.json()
              /\ rpc' = "returned"
              /\ rresult' = "json"
              /\ sleeps' = sleeps
  /\ UNCHANGED <<rcfg, attempt, batchVars, runVars, mainVars, viewVars,
                 loadVars>>

\* The backoff sleep ends: attempt++, and the loop either goes round again or
\* is left, in which case the function returns undefined.
BackoffElapsed ==
  /\ rpc = "backoff"
  /\ attempt' = attempt + 1
  /\ IF attempt + 1 < maxRetries(rcfg)
       THEN rpc' = "request" /\ rresult' = rresult
       ELSE rpc' = "returned" /\ rresult' = "undefined"
  /\ UNCHANGED <<rcfg, responses, sleeps, batchVars, runVars, mainVars, viewVars,
                 loadVars>>

NextRetry ==
  \/ \E r \in Responses : Request(r)
  \/ BackoffElapsed

SpecRetry == InitRetry /\ [][NextRetry]_vars

RetryDone == rpc \in {"returned", "thrown"}


\* The attempts the spec calls retryable: HTTP 429, HTTP >= 500, or a
\* transport error.
RetryableFailure(r) == r.status = 0 \/ r.status = 429 \/ r.status >= 500

\* A non-2xx status other than 429 and below 500.
PermanentFailure(r) ==
  r.status # 0 /\ ~ResponseOk(r) /\ r.status # 429 /\ r.status < 500

\* A parsed 2xx response.
Success(r) == ResponseOk(r) /\ r.jsonOk

\* C4 (as claimed): when every attempt ended in a retryable failure and the
\* retry budget is used up, fetchWithRetry has failed with the error; it has
\* not completed normally.
C4_ExhaustedRetriesFail ==
  ( /\ RetryDone
    /\ Len(responses) = maxRetries(rcfg)
    /\ \A i \in 1..Len(responses) : RetryableFailure(responses[i]) )
  => (rpc = "thrown" /\ rresult = "error")

\* C5 (as claimed): a response with a non-2xx status other than 429 and below
\* 500 makes fetchWithRetry fail at once: no backoff sleep follows it and no
\* further request is made.
C5_PermanentFailsImmediately ==
  \A i \in 1..Len(responses) :
    PermanentFailure(responses[i])
      => (rpc = "thrown" /\ Len(responses) = i /\ Len(sleeps) < i)

\* C6: a request answered 429 exactly k < retry_attempts times and then
\* successfully returns the success value after exactly k backoff sleeps of
\* base, 2*base, 4*base, ... in that order.
C6_RetryDeterminism ==
  \A k \in 0..(maxRetries(rcfg) - 1) :
    ( /\ Len(responses) = k + 1
      /\ \A i \in 1..k : responses[i].status = 429
      /\ Success(responses[k + 1]) )
    => /\ rpc = "returned"
       /\ rresult = "json"
       /\ sleeps = [i \in 1..k |-> baseDelay(rcfg) * (2 ^ (i - 1))]

\* Two 429 answers, then a success, with a configured base delay.
C6_Witness ==
  /\ rcfg.retry_base_delay_ms = 2
  /\ Len(responses) = 3
  /\ responses[1].status = 429
  /\ responses[2].status = 429
  /\ Success(responses[3])
  /\ rpc = "returned"
  /\ sleeps = <<2, 4>>

\* C7 (as claimed): the sleep after failed attempt a lasts base * 2^a, and
\* every backoff sleep is followed by another request attempt, so a finished
\* call has made more requests than it has slept.
C7_BackoffOnlyBeforeRetry ==
  /\ \A i \in 1..Len(sleeps) : sleeps[i] = baseDelay(rcfg) * (2 ^ (i - 1))
  /\ RetryDone => Len(responses) > Len(sleeps)

(***************************************************************************)
(*                              batchFetch                                 *)
(***************************************************************************)

\* Wallet addresses as the trader list may spell them.  "0xA" and "0xa" are
\* the same wallet in two spellings.
Addrs == {"0xa", "0xb", "0xA"}

\* address.toLowerCase()
toLowerCase(a) == IF a = "0xA" THEN "0xa" ELSE a

RECURSIVE SeqsUpTo(_, _)
SeqsUpTo(S, n) ==
  IF n = 0 THEN {<<>>}
  ELSE LET shorter == SeqsUpTo(S, n - 1)
       IN  shorter \cup { Append(s, x) : s \in shorter, x \in S }

Range(s) == { s[i] : i \in DOMAIN s }

Distinct(s) == \A i, j \in DOMAIN s : s[i] = s[j] => i = j

\* What a fetchFn call can do: return a promise that later resolves or
\* rejects, or throw before returning one.
ErrorMessage(a) == <<"error", a>>
DataOf(a)       == <<"data", a>>

\* results.set(address, { success: true, data: result })
SuccessEntry(a) == [success |-> TRUE, data |-> DataOf(a)]

\* results.set(address, { success: false, error: error.message })
FailureAsSuccess(a) == [success |-> TRUE, data |-> ErrorMessage(a)]
FailureEntry(a) == [success |-> FALSE, error |-> ErrorMessage(a)]

\* Map.prototype.set
MapSet(m, k, v) == [x \in (DOMAIN m) \cup {k} |-> IF x = k THEN v ELSE m[x]]

\* The try/catch of processNext: the entry recorded for a settled call.
RecordOnlySuccess(m, a, ok) == IF ok THEN MapSet(m, a, SuccessEntry(a)) ELSE m
Record(m, a, ok) ==
  MapSet(m, a, IF ok THEN SuccessEntry(a) ELSE FailureEntry(a))

\* The fetchFn calls that have started and have not settled.
Active == { i \in DOMAIN tasks : tasks[i].state = "pending" }

InitBatch ==
  /\ addresses \in SeqsUpTo(Addrs, MaxAddrs)
  /\ concurrency \in 0..MaxConc
  /\ queue = addresses
  /\ inFlight = {}
  /\ results = <<>>
  /\ tasks = <<>>
  /\ bpc = "run"
  /\ RetryIdle
  /\ RunIdle
  /\ ViewIdle
  /\ LoadIdle

\* A call of processNext from the inner while loop.  The function runs up to
\* its await: either fetchFn returns a promise (the task is now pending) or it
\* throws, and then catch and finally run before processNext returns.
processNext(throws) ==
  /\ bpc = "run"
  /\ Cardinality(inFlight) < concurrency
  /\ Len(queue) > 0
  /\ LET address == Head(queue) IN
       /\ queue' = Tail(queue)
       /\ IF throws
            THEN /\ tasks' = Append(tasks, [address |-> address, state |-> "threw"])
                 /\ results' = Record(results, address, FALSE)
                 /\ inFlight' = (inFlight \cup {address}) \ {address}
            ELSE /\ tasks' = Append(tasks, [address |-> address, state |-> "pending"])
                 /\ results' = results
                 /\ inFlight' = inFlight \cup {address}
  /\ UNCHANGED <<addresses, concurrency, bpc, retryVars, runVars, mainVars,
                 viewVars,
                 loadVars>>

\* The inner loop has nothing to launch and something is in flight:
\* await sleep(100).
Yield ==
  /\ bpc = "run"
  /\ ~(Cardinality(inFlight) < concurrency /\ Len(queue) > 0)
  /\ Cardinality(inFlight) > 0
  /\ bpc' = "sleep"
  /\ UNCHANGED <<addresses, concurrency, queue, inFlight, results, tasks,
                 retryVars, runVars, mainVars, viewVars,
                 loadVars>>

\* The inner loop has nothing to launch, nothing is in flight and the queue
\* is not empty: the outer loop goes round without suspending.
Spin ==
  /\ bpc = "run"
  /\ ~(Cardinality(inFlight) < concurrency /\ Len(queue) > 0)
  /\ Cardinality(inFlight) = 0
  /\ Len(queue) > 0
  /\ UNCHANGED vars

\* The promise of task i settles while the main loop is suspended (or after
\* batchFetch has returned): the rest of its processNext runs.
Settle(i, ok) ==
  /\ bpc \in {"sleep", "returned"}
  /\ i \in Active
  /\ tasks' = [tasks EXCEPT ![i].state = IF ok THEN "resolved" ELSE "rejected"]
  /\ results' = Record(results, tasks[i].address, ok)
  /\ inFlight' = inFlight \ {tasks[i].address}
  /\ UNCHANGED <<addresses, concurrency, queue, bpc, retryVars, runVars, mainVars,
                 viewVars,
                 loadVars>>

\* The 100 ms timer fires.
Wake ==
  /\ bpc = "sleep"
  /\ bpc' = "run"
  /\ UNCHANGED <<addresses, concurrency, queue, inFlight, results, tasks,
                 retryVars, runVars, mainVars, viewVars,
                 loadVars>>

\* The outer while condition is false: return results.
Return ==
  /\ bpc = "run"
  /\ Len(queue) = 0
  /\ Cardinality(inFlight) = 0
  /\ bpc' = "returned"
  /\ UNCHANGED <<addresses, concurrency, queue, inFlight, results, tasks,
                 retryVars, runVars, mainVars, viewVars,
                 loadVars>>

NextBatch ==
  \/ \E throws \in BOOLEAN : processNext(throws)
  \/ Yield
  \/ Spin
  \/ \E i \in DOMAIN tasks, ok \in BOOLEAN : Settle(i, ok)
  \/ Wake
  \/ Return

SpecBatch == InitBatch /\ [][NextBatch]_vars

Failed(t)    == t.state \in {"rejected", "threw"}
Succeeded(t) == t.state = "resolved"

\* The entry a settled task must have left in the result map.
EntryOf(t) ==
  IF Succeeded(t) THEN [success |-> TRUE, data |-> DataOf(t.address)]
  ELSE [success |-> FALSE, error |-> ErrorMessage(t.address)]

\* C1: for a list of distinct addresses, when batchFetch returns the result
\* map holds exactly one entry per input address and no other key; every
\* address was dispatched once, no task is still in flight, and each entry is
\* the success or the failure of its own task.
C1_OneEntryPerAddress ==
  (bpc = "returned" /\ Distinct(addresses))
  => /\ DOMAIN results = Range(addresses)
     /\ Len(tasks) = Len(addresses)
     /\ \A i \in DOMAIN tasks :
          /\ tasks[i].address = addresses[i]
          /\ tasks[i].state # "pending"
          /\ results[tasks[i].address] = EntryOf(tasks[i])

\* Three distinct addresses, returned, with a success and a failure.
C1_Witness ==
  /\ bpc = "returned"
  /\ Distinct(addresses)
  /\ Len(addresses) = 3
  /\ \E i, j \in DOMAIN tasks : Succeeded(tasks[i]) /\ Failed(tasks[j])

\* C2 (as claimed): the number of fetchFn calls started and not yet settled
\* never exceeds the concurrency argument.
C2_ConcurrencyBound == Cardinality(Active) <= concurrency

\* C3: a failing fetchFn call (a rejection or a synchronous throw) leaves
\* {success: false, error: message} under its own address and touches no
\* other entry; the batch goes on: when batchFetch returns every address has
\* been dispatched and has an entry, and the only way out of batchFetch is
\* its return.
C3_FailureIsolated ==
  /\ bpc \in {"run", "sleep", "returned"}
  /\ \A i \in DOMAIN tasks :
       (/\ tasks[i].state # "pending"
        /\ \A j \in DOMAIN tasks : tasks[j].address = tasks[i].address => j = i)
       => results[tasks[i].address] = EntryOf(tasks[i])
  /\ bpc = "returned"
       => /\ Len(tasks) = Len(addresses)
          /\ Range(addresses) \subseteq DOMAIN results

\* A batch that returned after a rejection, a synchronous throw and a success.
C3_Witness ==
  /\ bpc = "returned"
  /\ Len(addresses) = 3
  /\ Distinct(addresses)
  /\ \E i, j, k \in DOMAIN tasks :
       /\ tasks[i].state = "rejected"
       /\ tasks[j].state = "threw"
       /\ tasks[k].state = "resolved"
       /\ results[tasks[k].address].success
       /\ ~results[tasks[i].address].success

(***************************************************************************)
(*               fetchAllPortfolios and aggregatePortfolios                *)
(* Prices and dollar amounts are whole numbers of hundredths; sizes are    *)
(* whole numbers of shares.  A record's "has" names the fields the JSON    *)
(* object carries; a field outside "has" is undefined and is never read.   *)
(***************************************************************************)

Has(o, f) == f \in o.has

AllFields ==
  {"outcomeIndex", "outcome", "size", "avgPrice", "curPrice", "currentValue",
   "cashPnl"}

\* The position objects the upstream API may answer with.
PosA == [conditionId |-> "m1", outcomeIndex |-> 1, outcome |-> "Yes",
         size |-> 10, avgPrice |-> 50, curPrice |-> 60, currentValue |-> 600,
         cashPnl |-> 100, has |-> AllFields]
PosB == [conditionId |-> "m1", outcomeIndex |-> 0, outcome |-> "Yes",
         size |-> 4, avgPrice |-> 40, curPrice |-> 55, currentValue |-> 0,
         cashPnl |-> 0, has |-> {"outcome", "size", "avgPrice", "curPrice"}]
PosC == [conditionId |-> "m1", outcomeIndex |-> 0, outcome |-> "",
         size |-> 3, avgPrice |-> 0, curPrice |-> 0, currentValue |-> 0,
         cashPnl |-> 0 - 20, has |-> {"outcomeIndex", "size", "cashPnl"}]
PosD == [conditionId |-> "m2", outcomeIndex |-> 1, outcome |-> "No",
         size |-> 5, avgPrice |-> 0, curPrice |-> 0, currentValue |-> 0 - 500,
         cashPnl |-> 0, has |-> AllFields \ {"cashPnl"}]
PosE == [conditionId |-> "m2", outcomeIndex |-> 0, outcome |-> "",
         size |-> 0, avgPrice |-> 0, curPrice |-> 0, currentValue |-> 0,
         cashPnl |-> 0, has |-> {}]
PosF == [conditionId |-> "m1", outcomeIndex |-> 1, outcome |-> "Yes",
         size |-> 100, avgPrice |-> 40, curPrice |-> 45, currentValue |-> 4500,
         cashPnl |-> 500, has |-> AllFields]
PosG == [conditionId |-> "m1", outcomeIndex |-> 1, outcome |-> "Yes",
         size |-> 50, avgPrice |-> 60, curPrice |-> 0, currentValue |-> 2250,
         cashPnl |-> 0 - 750, has |-> AllFields]
PosH == [conditionId |-> "m1", outcomeIndex |-> 1, outcome |-> "Yes",
         size |-> 7, avgPrice |-> 0, curPrice |-> 30, currentValue |-> 0,
         cashPnl |-> 0, has |-> {"outcomeIndex", "outcome", "size", "curPrice"}]

\* A position in market c that carries its value and nothing else.
PosIn(c, value) ==
  [conditionId |-> c, outcomeIndex |-> 1, outcome |-> "Yes",
   size |-> 0, avgPrice |-> 0, curPrice |-> 0, currentValue |-> value,
   cashPnl |-> 0, has |-> {"outcomeIndex", "outcome", "currentValue"}]

\* What GET /positions may hold for one wallet.
PositionLists ==
  { <<>>, <<PosA>>, <<PosB, PosC>>, <<PosD, PosE>>, <<PosF, PosG>>,
    <<PosH, PosA>>,
    <<PosIn("m3", 100), PosIn("m4", 200), PosIn("m5", 300), PosIn("m6", 400)>> }

\* What GET /value may hold for one wallet.
WalletValues == {700}

\* The entries a batchFetch result map can hold (SuccessEntry / FailureEntry
\* of processNext, with the data of the fetch function).
PositionsEntries ==
  { [success |-> TRUE, data |-> l] : l \in PositionLists }
    \cup { [success |-> FALSE, error |-> "HTTP 404"] }
ValueEntries ==
  { [success |-> TRUE, data |-> v] : v \in WalletValues }
    \cup { [success |-> FALSE, error |-> "HTTP 404"] }

Abs(x) == IF x < 0 THEN 0 - x ELSE x

\* parseFloat(pos.f || 0) of a numeric field
NumOr0(o, f, v) == IF Has(o, f) THEN v ELSE 0

\* function computeExposure(position)
SignedExposure(pos) ==
  IF Has(pos, "currentValue") THEN pos.currentValue
  ELSE IF Has(pos, "size") /\ Has(pos, "curPrice") THEN pos.size * pos.curPrice
  ELSE IF Has(pos, "size") THEN pos.size * 100
  ELSE 0
\* the same with size * curPrice taken before currentValue
PriceBeforeValue(pos) ==
  IF Has(pos, "size") /\ Has(pos, "curPrice") THEN Abs(pos.size * pos.curPrice)
  ELSE IF Has(pos, "currentValue") THEN Abs(pos.currentValue)
  ELSE IF Has(pos, "size") THEN Abs(pos.size) * 100
  ELSE 0
computeExposure(pos) ==
  IF Has(pos, "currentValue") THEN Abs(pos.currentValue)
  ELSE IF Has(pos, "size") /\ Has(pos, "curPrice")
    THEN Abs(pos.size * pos.curPrice)
  ELSE IF Has(pos, "size") THEN Abs(pos.size) * 100
  ELSE 0

\* JavaScript's posResult?.success && valResult?.success, where a key missing
\* from a result map makes the lookup undefined.
fetchSuccessOf(posRes, valRes, addr) ==
  IF addr \notin DOMAIN posRes THEN "undefined"
  ELSE IF ~posRes[addr].success THEN "false"
  ELSE IF addr \notin DOMAIN valRes THEN "undefined"
  ELSE IF valRes[addr].success THEN "true" ELSE "false"

\* const positions = posResult?.success ? posResult.data : [];
positionsOf(posRes, addr) ==
  IF addr \in DOMAIN posRes /\ posRes[addr].success THEN posRes[addr].data
  ELSE <<>>

\* totalValue: valResult?.success ? valResult.data : 0
totalValueOf(valRes, addr) ==
  IF addr \in DOMAIN valRes /\ valRes[addr].success THEN valRes[addr].data
  ELSE 0

\* parseFloat(pos.cashPnl || pos.pnl || 0), summed over the positions
RECURSIVE totalPnLOf(_)
totalPnLOf(ps) ==
  IF ps = <<>> THEN 0
  ELSE NumOr0(Head(ps), "cashPnl", Head(ps).cashPnl) + totalPnLOf(Tail(ps))

\* traderPortfolios[addr] = {...} of a plain object: a new key goes last, an
\* existing key keeps its place.
ObjSet(obj, v) ==
  IF \E i \in DOMAIN obj : obj[i].address = v.address
    THEN [i \in DOMAIN obj |-> IF obj[i].address = v.address THEN v ELSE obj[i]]
    ELSE Append(obj, v)

\* The body of "for (const trader of traders)": both result maps are read
\* under the lower-cased address.

PortfolioOf(trader, posRes, valRes) ==
  LET addr == toLowerCase(trader.address)
      key  == addr
      positions == positionsOf(posRes, key)
  IN  [address      |-> addr,
       positions    |-> positions,
       totalValue   |-> totalValueOf(valRes, key),
       totalPnL     |-> totalPnLOf(positions),
       fetchSuccess |-> fetchSuccessOf(posRes, valRes, key)]

RECURSIVE BuildPortfolios(_, _, _, _)
BuildPortfolios(obj, ts, posRes, valRes) ==
  IF ts = <<>> THEN obj
  ELSE BuildPortfolios(ObjSet(obj, PortfolioOf(Head(ts), posRes, valRes)),
                       Tail(ts), posRes, valRes)

\* ---- aggregatePortfolios ----

\* outcomeIndex = pos.outcomeIndex, or derived from the outcome string
resolveOutcomeIndex(pos) ==
  IF Has(pos, "outcomeIndex") THEN pos.outcomeIndex
  ELSE IF Has(pos, "outcome") /\ pos.outcome = "Yes" THEN 1 ELSE 0

\* outcomeStr = pos.outcome, or derived from the resolved index
resolveOutcomeStr(pos) ==
  IF Has(pos, "outcome") /\ pos.outcome # "" THEN pos.outcome
  ELSE IF resolveOutcomeIndex(pos) = 0 THEN "No" ELSE "Yes"

\* const key = `${pos.conditionId}-${outcomeIndex}`
KeyOf(pos) == <<pos.conditionId, resolveOutcomeIndex(pos)>>

\* if (!portfolio.positions || !portfolio.fetchSuccess) continue;
\* (positions is an array, empty or not, in every portfolio that
\* fetchAllPortfolios builds, and an array is truthy)
Contributes(portfolio) == portfolio.fetchSuccess = "true"

NewAgg(pos) ==
  [key |-> KeyOf(pos),
   conditionId |-> pos.conditionId,
   outcome |-> resolveOutcomeStr(pos),
   outcomeIndex |-> resolveOutcomeIndex(pos),
   traders |-> <<>>,
   totalExposure |-> 0,
   weightedAvgPriceSum |-> 0,
   totalSize |-> 0,
   curPrice |-> 0]

\* agg.totalExposure += exposure
OverwriteTotal(total, exposure) == exposure
AddExposure(total, exposure) == total + exposure

\* if (avgPrice > 0 && size > 0): the position enters the weighted average
WeightedBySizeOnly(avgPrice, size) == size > 0
Weighted(avgPrice, size) == avgPrice > 0 /\ size > 0

\* if (curPrice > 0) agg.curPrice = curPrice
OverwritePrice(old, curPrice) == curPrice
LatestPrice(old, curPrice) == IF curPrice > 0 THEN curPrice ELSE old

\* The updates of one position to its aggregate.
Accumulate(agg, address, pos) ==
  LET exposure == computeExposure(pos)
      avgPrice == NumOr0(pos, "avgPrice", pos.avgPrice)
      curPrice == NumOr0(pos, "curPrice", pos.curPrice)
      size     == NumOr0(pos, "size", pos.size)
      weighted == Weighted(avgPrice, size)
  IN  [agg EXCEPT
         !.traders = Append(@, [address |-> address, exposure |-> exposure,
                                size |-> size, avgPrice |-> avgPrice,
                                curPrice |-> curPrice]),
         !.totalExposure = AddExposure(@, exposure),
         !.weightedAvgPriceSum = IF weighted THEN @ + avgPrice * size ELSE @,
         !.totalSize = IF weighted THEN @ + size ELSE @,
         !.curPrice = LatestPrice(@, curPrice)]

\* The body of "for (const pos of portfolio.positions)" on the Map
\* "aggregated", kept as the sequence of its values in insertion order.
AddPosition(aggs, address, pos) ==
  LET withKey == IF \E i \in DOMAIN aggs : aggs[i].key = KeyOf(pos)
                   THEN aggs ELSE Append(aggs, NewAgg(pos))
  IN  [i \in DOMAIN withKey |->
         IF withKey[i].key = KeyOf(pos)
           THEN Accumulate(withKey[i], address, pos) ELSE withKey[i]]

RECURSIVE AddPositions(_, _, _)
AddPositions(aggs, address, ps) ==
  IF ps = <<>> THEN aggs
  ELSE AddPositions(AddPosition(aggs, address, Head(ps)), address, Tail(ps))

RECURSIVE AggregateAll(_, _)
AggregateAll(aggs, portfolios) ==
  IF portfolios = <<>> THEN aggs
  ELSE LET p == Head(portfolios) IN
       AggregateAll(IF Contributes(p)
                      THEN AddPositions(aggs, p.address, p.positions)
                      ELSE aggs,
                    Tail(portfolios))

\* ---- build24hChangeMap ----

\* Math.floor(Date.now() / 1000) when the run starts
Now == 40 * 86400

\* What later readings of the clock may return.
ClockReadings == {Now, Now + 1}

EvBuy  == [timestamp |-> Now - 7200, type |-> "TRADE", side |-> "BUY",
           conditionId |-> "m1", outcomeIndex |-> 1, outcome |-> "Yes",
           usdcSize |-> 300, size |-> 5, traderAddress |-> "0xa",
           has |-> {"type", "outcomeIndex", "outcome", "usdcSize", "size"}]
EvSell == [timestamp |-> Now - 1800, type |-> "", side |-> "SELL",
           conditionId |-> "m1", outcomeIndex |-> 0, outcome |-> "Yes",
           usdcSize |-> 0, size |-> 2, traderAddress |-> "0xb",
           has |-> {"outcome", "size"}]
EvOld  == [timestamp |-> Now - 3 * 86400, type |-> "TRADE", side |-> "BUY",
           conditionId |-> "m2", outcomeIndex |-> 1, outcome |-> "Yes",
           usdcSize |-> 900, size |-> 9, traderAddress |-> "0xa",
           has |-> {"type", "outcomeIndex", "outcome", "usdcSize", "size"}]
EvRedeem == [timestamp |-> Now - 3600, type |-> "REDEEM", side |-> "",
             conditionId |-> "m1", outcomeIndex |-> 1, outcome |-> "Yes",
             usdcSize |-> 400, size |-> 4, traderAddress |-> "0xa",
             has |-> {"type", "outcomeIndex", "outcome", "usdcSize", "size"}]
\* a trade whose side is neither BUY nor SELL
EvOdd  == [timestamp |-> Now - 600, type |-> "TRADE", side |-> "",
           conditionId |-> "m1", outcomeIndex |-> 1, outcome |-> "",
           usdcSize |-> 250, size |-> 5, traderAddress |-> "0xb",
           has |-> {"type", "outcomeIndex", "usdcSize", "size"}]
\* a trade made exactly 24 hours before the run starts
EvEdge == [timestamp |-> Now - 86400, type |-> "TRADE", side |-> "BUY",
           conditionId |-> "m1", outcomeIndex |-> 1, outcome |-> "Yes",
           usdcSize |-> 150, size |-> 3, traderAddress |-> "0xb",
           has |-> {"type", "outcomeIndex", "outcome", "usdcSize", "size"}]

\* a purchase of 1.20 whose outcome string says Yes and whose index says 0
EvCross == [timestamp |-> Now - 900, type |-> "TRADE", side |-> "BUY",
            conditionId |-> "m2", outcomeIndex |-> 0, outcome |-> "Yes",
            usdcSize |-> 120, size |-> 2, traderAddress |-> "0xa",
            has |-> {"type", "outcomeIndex", "outcome", "usdcSize", "size"}]

\* What fetchAllActivity may return: sorted by timestamp, newest first.
ActivityFeeds ==
  { <<>>, <<EvSell, EvBuy, EvOld>>, <<EvSell, EvRedeem, EvBuy>>,
    <<EvOdd, EvSell, EvBuy>>, <<EvBuy, EvEdge, EvOld>>, <<EvCross, EvBuy>> }

\* parseFloat(a.usdcSize || a.size || 0), in hundredths
TradeAmount(a) ==
  IF Has(a, "usdcSize") /\ a.usdcSize # 0 THEN a.usdcSize
  ELSE IF Has(a, "size") /\ a.size # 0 THEN a.size * 100
  ELSE 0

\* The signed delta of an event: BUY adds, anything else subtracts.
Delta(a) == IF a.side = "BUY" THEN TradeAmount(a) ELSE 0 - TradeAmount(a)

\* The key of an event, "matching position aggregation"
EventKey(a) ==
  <<a.conditionId,
    IF Has(a, "outcomeIndex") THEN a.outcomeIndex
    ELSE IF Has(a, "outcome") /\ a.outcome = "Yes" THEN 1 ELSE 0>>

\* a.type === 'TRADE' || !a.type
IsTrade(a) == ~(Has(a, "type") /\ a.type # "" /\ a.type # "TRADE")

\* The two "continue" tests of build24hChangeMap, now being the clock reading
\* of the call.
Counts24h(a, now) ==
  /\ a.timestamp >= now - 24 * 3600
  /\ IsTrade(a)

\* function build24hChangeMap(activity)
RECURSIVE build24hChangeMap(_, _, _)
build24hChangeMap(changeMap, events, now) ==
  IF events = <<>> THEN changeMap
  ELSE LET a == Head(events)
           k == EventKey(a)
           old == IF k \in DOMAIN changeMap THEN changeMap[k] ELSE 0
       IN  build24hChangeMap(
             IF Counts24h(a, now) THEN MapSet(changeMap, k, old + Delta(a))
             ELSE changeMap,
             Tail(events), now)

\* Math.round(n / d) for d > 0
RoundDiv(n, d) == (2 * n + d) \div (2 * d)

\* The object built for one aggregate by positions.map.
Finalize(agg, change24hMap) ==
  LET hasEntry == agg.totalSize > 0
      avgEntry == IF hasEntry
                    THEN RoundDiv(agg.weightedAvgPriceSum, agg.totalSize) ELSE 0
      pct == IF hasEntry /\ agg.weightedAvgPriceSum > 0 /\ agg.curPrice > 0
               THEN RoundDiv(1000 * (agg.curPrice * agg.totalSize
                                       - agg.weightedAvgPriceSum),
                             agg.weightedAvgPriceSum)
               ELSE 0
  IN  [conditionId |-> agg.conditionId,
       outcome |-> agg.outcome,
       outcomeIndex |-> agg.outcomeIndex,
       traderCount |-> Len(agg.traders),
       traders |-> agg.traders,
       totalExposure |-> agg.totalExposure,
       change24h |-> IF agg.key \in DOMAIN change24hMap
                       THEN change24hMap[agg.key] ELSE 0,
       avgEntry |-> avgEntry,
       curPrice |-> agg.curPrice,
       priceChangePct |-> pct]

\* positions.sort((a, b) => b.totalExposure - a.totalExposure): a stable sort
Unsorted(sorted, rest) == sorted \o rest
\* the same insertion placing an aggregate before the ones it ties with
RECURSIVE InsertBeforeTies(_, _)
InsertBeforeTies(sorted, p) ==
  IF sorted = <<>> THEN <<p>>
  ELSE IF Head(sorted).totalExposure > p.totalExposure
    THEN <<Head(sorted)>> \o InsertBeforeTies(Tail(sorted), p)
    ELSE <<p>> \o sorted

RECURSIVE InsertDesc(_, _)
InsertDesc(sorted, p) ==
  IF sorted = <<>> THEN <<p>>
  ELSE IF Head(sorted).totalExposure >= p.totalExposure
    THEN <<Head(sorted)>> \o InsertDesc(Tail(sorted), p)
    ELSE <<p>> \o sorted

RECURSIVE SortDesc(_, _)
SortDesc(sorted, rest) ==
  IF rest = <<>> THEN sorted
  ELSE SortDesc(InsertDesc(sorted, Head(rest)), Tail(rest))

RECURSIVE SumExposure(_)
SumExposure(ps) ==
  IF ps = <<>> THEN 0 ELSE Head(ps).totalExposure + SumExposure(Tail(ps))

\* positions.filter(p => p.totalExposure >= (config.min_usd_filter || 0))
FilterMin(ps, cfg) == SelectSeq(ps, LAMBDA p : p.totalExposure >= cfg.min_usd_filter)

\* positions.slice(0, 5)
TopCount == 5
Take(ps, n) == SubSeq(ps, 1, IF Len(ps) < n THEN Len(ps) ELSE n)

\* Math.round(share * 100) / 100 of the share part / total, in hundredths;
\* the shares stay 0 unless the total is positive.
ShareOf(part, total) == IF total > 0 THEN RoundDiv(100 * part, total) ELSE 0

\* export function aggregatePortfolios(traderPortfolios, config, activity),
\* now being what the clock reads during the call
aggregatePortfolios(portfolios, cfg, events, now) ==
  LET change24hMap == build24hChangeMap(<<>>, events, now)
      aggs   == AggregateAll(<<>>, portfolios)
      all    == [i \in DOMAIN aggs |-> Finalize(aggs[i], change24hMap)]
      sorted == SortDesc(<<>>, all)
      totalExposure == SumExposure(sorted)
  IN  [positions |-> FilterMin(sorted, cfg),
       summary |-> [totalExposure |-> totalExposure,
                    distinctMarkets |->
                      Cardinality({ sorted[i].conditionId : i \in DOMAIN sorted }),
                    top1Share |->
                      ShareOf(SumExposure(Take(sorted, 1)), totalExposure),
                    top5Share |->
                      ShareOf(SumExposure(Take(sorted, TopCount)), totalExposure),
                    netFlow24h |-> 0]]

\* ---- processRecentChanges ----

WindowNames == <<"1h", "6h", "24h", "7d", "30d">>

\* const windows = { '1h': now - 3600, ... }: the length of each window
WindowSpan(w) ==
  CASE w = "1h"  -> 3600
    [] w = "6h"  -> 6 * 3600
    [] w = "24h" -> 24 * 3600
    [] w = "7d"  -> 7 * 24 * 3600
    [] w = "30d" -> 30 * 24 * 3600

\* for (const [window, threshold] of Object.entries(windows))
\*   if (ts >= threshold) windowSummaries[window] += delta;
\* the windows an event is added to
NarrowestOnly(a, now) ==
  { w \in Range(WindowNames) :
      /\ a.timestamp >= now - WindowSpan(w)
      /\ \A v \in Range(WindowNames) :
           a.timestamp >= now - WindowSpan(v) => WindowSpan(w) <= WindowSpan(v) }
WindowsOf(a, now) ==
  { w \in Range(WindowNames) : a.timestamp >= now - WindowSpan(w) }

\* let action = 'unknown'; if (a.side === 'BUY') ... else if (a.side === 'SELL')
ActionOf(a) ==
  IF a.side = "BUY" THEN "increased"
  ELSE IF a.side = "SELL" THEN "decreased" ELSE "unknown"

\* let outcome = a.outcome || ''; derived from outcomeIndex when empty
OutcomeOf(a) ==
  IF Has(a, "outcome") /\ a.outcome # "" THEN a.outcome
  ELSE IF Has(a, "outcomeIndex")
    THEN (IF a.outcomeIndex = 0 THEN "No" ELSE "Yes")
  ELSE ""

\* An outcomeIndex that is undefined.
Undefined == 0 - 1

\* The object returned by the map callback.
ChangeRecord(a) ==
  [timestamp |-> a.timestamp,
   trader |-> a.traderAddress,
   traderAddress |-> a.traderAddress,
   conditionId |-> a.conditionId,
   outcome |-> OutcomeOf(a),
   outcomeIndex |-> IF Has(a, "outcomeIndex") THEN a.outcomeIndex ELSE Undefined,
   action |-> ActionOf(a),
   delta |-> Delta(a)]

\* activity.filter(a => a.type === 'TRADE' || !a.type)
TypedTrades(events) ==
  SelectSeq(events, LAMBDA a : Has(a, "type") /\ a.type = "TRADE")
Trades(events) == SelectSeq(events, IsTrade)

\* What the map callback adds to windowSummaries[w] over all trades.
RECURSIVE WindowSum(_, _, _)
WindowSum(trades, w, now) ==
  IF trades = <<>> THEN 0
  ELSE (IF w \in WindowsOf(Head(trades), now) THEN Delta(Head(trades)) ELSE 0)
         + WindowSum(Tail(trades), w, now)

\* export function processRecentChanges(activity, traderPortfolios), now
\* being what the clock reads during the call
processRecentChanges(events, now) ==
  LET trades == Trades(events)
  IN  [changes |-> [i \in DOMAIN trades |-> ChangeRecord(trades[i])],
       windowSummaries |->
         [w \in Range(WindowNames) |-> WindowSum(trades, w, now)]]

\* ---- computeAll and main ----

\* aggregatedPortfolio.summary.netFlow24h = recentChanges.windowSummaries['24h']
NetFlow1h(rc) == rc.windowSummaries["1h"]
NetFlowOf(rc) == rc.windowSummaries["24h"]

\* Object.values(traderPortfolios).filter(p => p.fetchSuccess).length
TradersFetched(portfolios) ==
  Cardinality({ i \in DOMAIN portfolios : portfolios[i].fetchSuccess = "true" })

\* const metadata = {...}
MetadataOf(ts, portfolios, agg, events) ==
  [trader_count |-> Len(ts),
   traders_fetched |-> TradersFetched(portfolios),
   market_count |-> agg.summary.distinctMarkets,
   total_exposure |-> agg.summary.totalExposure,
   activity_count |-> Len(events)]

\* The four writeJSON calls of main, in order.
DocumentOrder ==
  <<"metadata", "aggregated_portfolio", "trader_portfolios", "recent_changes">>

\* No process.exit yet.
NoExit == 0 - 1

\* catch (error) { console.error(...); process.exit(1); }
SwallowException(w) == [exitCode |-> 0, written |-> w]
OnException(w) == [exitCode |-> 1, written |-> w]

\* ---- the run ----

MinUsdFilters == {0, 250, 500}

MainIdle ==
  /\ recentChanges = [changes |-> <<>>]
  /\ metadata = [trader_count |-> 0]
  /\ written = <<>>
  /\ exitCode = NoExit
  /\ failedAt = "none"
  /\ secondCall = [positions |-> <<>>]

InitRun ==
  /\ traders \in { [i \in DOMAIN s |-> [address |-> s[i]]] :
                     s \in SeqsUpTo(Addrs, MaxTraders) }
  /\ config \in [min_usd_filter : MinUsdFilters]
  /\ positionsResults = <<>>
  /\ valuesResults = <<>>
  /\ traderPortfolios = <<>>
  /\ activity = <<>>
  /\ aggregatedPortfolio = [positions |-> <<>>]
  /\ ppc = "start"
  /\ clock = Now
  /\ MainIdle
  /\ RetryIdle
  /\ BatchIdle
  /\ ViewIdle
  /\ LoadIdle

\* A run of main over a list of two traders.
InitMain ==
  /\ traders = <<[address |-> "0xa"], [address |-> "0xb"]>>
  /\ config \in [min_usd_filter : MinUsdFilters]
  /\ positionsResults = <<>>
  /\ valuesResults = <<>>
  /\ traderPortfolios = <<>>
  /\ activity = <<>>
  /\ aggregatedPortfolio = [positions |-> <<>>]
  /\ ppc = "start"
  /\ clock = Now
  /\ MainIdle
  /\ RetryIdle
  /\ BatchIdle
  /\ ViewIdle
  /\ LoadIdle

\* traders.map(t => t.address)
TraderAddresses == { traders[i].address : i \in DOMAIN traders }

\* const positionsResults = await batchFetch(..., fetchWalletPositions, ...):
\* one entry per address handed in, each a success or a failure.
FetchPositions ==
  /\ ppc = "start"
  /\ positionsResults' \in [TraderAddresses -> PositionsEntries]
  /\ ppc' = "positions"
  /\ UNCHANGED <<traders, config, valuesResults, traderPortfolios,
                 aggregatedPortfolio, activity, clock, mainVars, retryVars,
                 batchVars, viewVars,
                 loadVars>>

\* const valuesResults = await batchFetch(..., fetchWalletValue, ...)
FetchValues ==
  /\ ppc = "positions"
  /\ valuesResults' \in [TraderAddresses -> ValueEntries]
  /\ ppc' = "values"
  /\ UNCHANGED <<traders, config, positionsResults, traderPortfolios,
                 aggregatedPortfolio, activity, clock, mainVars, retryVars,
                 batchVars, viewVars,
                 loadVars>>

\* The loop that builds traderPortfolios; fetchAllPortfolios returns.
BuildTraderPortfolios ==
  /\ ppc = "values"
  /\ traderPortfolios' =
       BuildPortfolios(<<>>, traders, positionsResults, valuesResults)
  /\ ppc' = "built"
  /\ UNCHANGED <<traders, config, positionsResults, valuesResults,
                 aggregatedPortfolio, activity, clock, mainVars, retryVars,
                 batchVars, viewVars,
                 loadVars>>

\* const activity = await fetchAllActivity(traders, config)
FetchActivity ==
  /\ ppc = "built"
  /\ activity' \in ActivityFeeds
  /\ ppc' = "activity"
  /\ UNCHANGED <<traders, config, positionsResults, valuesResults,
                 traderPortfolios, aggregatedPortfolio, clock, mainVars,
                 retryVars, batchVars, viewVars,
                 loadVars>>

\* const aggregatedPortfolio = aggregatePortfolios(traderPortfolios, config, activity)
\* The call reads the clock, which has not gone back since the last reading.
Aggregate ==
  /\ ppc = "activity"
  /\ \E now \in ClockReadings :
       /\ now >= clock
       /\ clock' = now
       /\ aggregatedPortfolio' =
            aggregatePortfolios(traderPortfolios, config, activity, now)
  /\ ppc' = "aggregated"
  /\ UNCHANGED <<traders, config, positionsResults, valuesResults,
                 traderPortfolios, activity, mainVars, retryVars, batchVars,
                 viewVars,
                 loadVars>>

\* A caller hands the same arguments to aggregatePortfolios once more.
AggregateAgain ==
  /\ ppc = "aggregated"
  /\ \E now \in ClockReadings :
       /\ now >= clock
       /\ clock' = now
       /\ secondCall' =
            aggregatePortfolios(traderPortfolios, config, activity, now)
  /\ ppc' = "again"
  /\ UNCHANGED <<traders, config, positionsResults, valuesResults,
                 traderPortfolios, activity, aggregatedPortfolio,
                 recentChanges, metadata, written, exitCode, failedAt,
                 retryVars, batchVars, viewVars,
                 loadVars>>

\* const recentChanges = processRecentChanges(activity, traderPortfolios)
ProcessChanges ==
  /\ ppc = "aggregated"
  /\ \E now \in ClockReadings :
       /\ now >= clock
       /\ clock' = now
       /\ recentChanges' = processRecentChanges(activity, now)
  /\ ppc' = "windowed"
  /\ UNCHANGED <<traders, config, positionsResults, valuesResults,
                 traderPortfolios, activity, aggregatedPortfolio, metadata,
                 written, exitCode, failedAt, secondCall, retryVars, batchVars,
                 viewVars,
                 loadVars>>

\* The netFlow24h assignment and the metadata object; computeAll returns.
Compose ==
  /\ ppc = "windowed"
  /\ aggregatedPortfolio' =
       [aggregatedPortfolio EXCEPT !.summary.netFlow24h = NetFlowOf(recentChanges)]
  /\ metadata' = MetadataOf(traders, traderPortfolios, aggregatedPortfolio, activity)
  /\ ppc' = "computed"
  /\ UNCHANGED <<traders, config, positionsResults, valuesResults,
                 traderPortfolios, activity, clock, recentChanges, written,
                 exitCode, failedAt, secondCall, retryVars, batchVars,
                 viewVars,
                 loadVars>>

\* The object main hands to the writeJSON call of document name.
DocumentOf(name) ==
  CASE name = "metadata" -> metadata
    [] name = "aggregated_portfolio" -> aggregatedPortfolio
    [] name = "trader_portfolios" -> traderPortfolios
    [] name = "recent_changes" -> recentChanges

\* The next writeJSON call of main.
WriteDocument ==
  /\ ppc = "computed"
  /\ Len(written) < Len(DocumentOrder)
  /\ LET name == DocumentOrder[Len(written) + 1]
     IN  written' = Append(written, [name |-> name, data |-> DocumentOf(name)])
  /\ UNCHANGED <<runVars, recentChanges, metadata, exitCode, failedAt,
                 secondCall, retryVars, batchVars, viewVars,
                 loadVars>>

\* process.exit(0) after the four writes
ExitSuccess ==
  /\ ppc = "computed"
  /\ Len(written) = Len(DocumentOrder)
  /\ ppc' = "exited"
  /\ exitCode' = 0
  /\ UNCHANGED <<traders, config, positionsResults, valuesResults,
                 traderPortfolios, activity, aggregatedPortfolio, clock,
                 recentChanges, metadata, written, failedAt, secondCall,
                 retryVars, batchVars, viewVars,
                 loadVars>>

\* The steps of computeAll that can throw past the fetch layer, by the
\* position the run is at: loadConfig and loadTraders (a missing CSV, a
\* malformed config.json), the portfolio loop of fetchAllPortfolios (a
\* response body that is not an array), aggregatePortfolios (a null
\* position) and processRecentChanges (a null event).
ThrowingStep ==
  CASE ppc = "start" -> "loading"
    [] ppc = "values" -> "portfolios"
    [] ppc = "activity" -> "aggregation"
    [] ppc = "aggregated" -> "windowing"
    [] OTHER -> "none"

\* An exception leaves computeAll and reaches the catch block of main.
ComputationThrows ==
  /\ ThrowingStep # "none"
  /\ failedAt' = ThrowingStep
  /\ exitCode' = OnException(written).exitCode
  /\ written' = OnException(written).written
  /\ ppc' = "exited"
  /\ UNCHANGED <<traders, config, positionsResults, valuesResults,
                 traderPortfolios, activity, aggregatedPortfolio, clock,
                 recentChanges, metadata, secondCall, retryVars, batchVars,
                 viewVars,
                 loadVars>>

\* A writeJSON call throws (the file system refuses the write).
WriteThrows ==
  /\ ppc = "computed"
  /\ Len(written) < Len(DocumentOrder)
  /\ failedAt' = "writing"
  /\ exitCode' = OnException(written).exitCode
  /\ written' = OnException(written).written
  /\ ppc' = "exited"
  /\ UNCHANGED <<traders, config, positionsResults, valuesResults,
                 traderPortfolios, activity, aggregatedPortfolio, clock,
                 recentChanges, metadata, secondCall, retryVars, batchVars,
                 viewVars,
                 loadVars>>

NextRun ==
  \/ FetchPositions
  \/ FetchValues
  \/ BuildTraderPortfolios
  \/ FetchActivity
  \/ Aggregate

SpecRun == InitRun /\ [][NextRun]_vars

NextMain ==
  \/ NextRun
  \/ ProcessChanges
  \/ Compose
  \/ WriteDocument
  \/ ExitSuccess
  \/ ComputationThrows
  \/ WriteThrows

SpecMain == InitMain /\ [][NextMain]_vars

NextTwice ==
  \/ NextRun
  \/ AggregateAgain

SpecTwice == InitMain /\ [][NextTwice]_vars

\* The portfolio kept under the lower-cased address of trader i.
PortfoliosAt(a) ==
  { j \in DOMAIN traderPortfolios : traderPortfolios[j].address = toLowerCase(a) }

Built == ppc \in {"built", "activity", "aggregated"}

\* Whether the two batch fetches dispatched for address a succeeded.
PositionsFetched(a) == positionsResults[a].success
ValueFetched(a)     == valuesResults[a].success

RECURSIVE SumTraderExposure(_)
SumTraderExposure(ts) ==
  IF ts = <<>> THEN 0 ELSE Head(ts).exposure + SumTraderExposure(Tail(ts))

\* The positions of portfolio q that belong to the aggregate p.
Matching(q, p) ==
  { n \in DOMAIN q.positions :
      /\ q.positions[n].conditionId = p.conditionId
      /\ resolveOutcomeIndex(q.positions[n]) = p.outcomeIndex }

\* C8 (as claimed): a trader's fetchSuccess is true exactly when both the
\* positions fetch and the value fetch dispatched for that trader succeeded,
\* and every contribution to an aggregated position comes from a portfolio
\* whose fetchSuccess is true.
C8_FetchSuccessIffBothFetched ==
  /\ Built =>
       \A i \in DOMAIN traders :
         \A j \in PortfoliosAt(traders[i].address) :
           (traderPortfolios[j].fetchSuccess = "true")
             <=> (/\ PositionsFetched(traders[i].address)
                  /\ ValueFetched(traders[i].address))
  /\ ppc = "aggregated" =>
       \A n \in DOMAIN aggregatedPortfolio.positions :
         \A m \in DOMAIN aggregatedPortfolio.positions[n].traders :
           \E j \in DOMAIN traderPortfolios :
             /\ traderPortfolios[j].address =
                  aggregatedPortfolio.positions[n].traders[m].address
             /\ traderPortfolios[j].fetchSuccess = "true"

\* C9 (as claimed): every trader of the list has exactly one TraderPortfolio
\* under the lower-cased address; when one of the trader's two fetches failed
\* the portfolio carries fetchSuccess false, and totalValue 0 when the value
\* fetch failed.
C9_FailedTraderRetained ==
  Built =>
    \A i \in DOMAIN traders :
      LET a == traders[i].address IN
        /\ Cardinality(PortfoliosAt(a)) = 1
        /\ \A j \in PortfoliosAt(a) :
             /\ (~PositionsFetched(a) \/ ~ValueFetched(a))
                  => traderPortfolios[j].fetchSuccess = "false"
             /\ ~ValueFetched(a) => traderPortfolios[j].totalValue = 0

\* C10: in every AggregatedPosition returned by aggregatePortfolios,
\* totalExposure is the sum of the exposure fields of its traders list,
\* traderCount is the length of that list, the list is not empty, and each
\* portfolio has exactly as many entries in the list as it has positions with
\* that conditionId and outcomeIndex if its fetchSuccess is true, and none
\* otherwise; each entry carries the exposure of such a position.
C10_ExposureIsSumOfContributions ==
  ppc = "aggregated" =>
    \A n \in DOMAIN aggregatedPortfolio.positions :
      LET p == aggregatedPortfolio.positions[n] IN
        /\ p.totalExposure = SumTraderExposure(p.traders)
        /\ p.traderCount = Len(p.traders)
        /\ Len(p.traders) >= 1
        /\ \A j \in DOMAIN traderPortfolios :
             LET q == traderPortfolios[j]
                 mine == { m \in DOMAIN p.traders : p.traders[m].address = q.address }
             IN  /\ Cardinality(mine) =
                      IF q.fetchSuccess = "true"
                        THEN Cardinality(Matching(q, p)) ELSE 0
                 /\ \A m \in mine :
                      \E k \in Matching(q, p) :
                        p.traders[m].exposure = computeExposure(q.positions[k])

\* The end-to-end case of the specification: two successful traders, one
\* holding a Yes position (size 10, avgPrice 0.50, currentValue 6.00), the
\* other holding nothing in that market; one aggregate with traderCount 1 and
\* totalExposure 6.00.
C10_Witness ==
  /\ ppc = "aggregated"
  /\ Len(traderPortfolios) = 2
  /\ \A j \in DOMAIN traderPortfolios : traderPortfolios[j].fetchSuccess = "true"
  /\ traderPortfolios[1].positions = <<PosA>>
  /\ traderPortfolios[2].positions = <<PosD, PosE>>
  /\ \E n \in DOMAIN aggregatedPortfolio.positions :
       /\ aggregatedPortfolio.positions[n].conditionId = "m1"
       /\ aggregatedPortfolio.positions[n].outcomeIndex = 1
       /\ aggregatedPortfolio.positions[n].traderCount = 1
       /\ aggregatedPortfolio.positions[n].totalExposure = 600

\* v is Math.round(n / d), for d > 0
IsRounded(v, n, d) == 2 * v * d <= 2 * n + d /\ 2 * n + d < 2 * v * d + 2 * d

\* The contributions of an aggregate that carry a positive avgPrice and a
\* positive size.
Priced(p) ==
  { m \in DOMAIN p.traders : p.traders[m].avgPrice > 0 /\ p.traders[m].size > 0 }

RECURSIVE PricedSize(_, _)
PricedSize(ts, S) ==
  IF S = {} THEN 0
  ELSE LET m == CHOOSE x \in S : TRUE
       IN  ts[m].size + PricedSize(ts, S \ {m})

RECURSIVE PricedValue(_, _)
PricedValue(ts, S) ==
  IF S = {} THEN 0
  ELSE LET m == CHOOSE x \in S : TRUE
       IN  ts[m].avgPrice * ts[m].size + PricedValue(ts, S \ {m})

\* C11: in every AggregatedPosition, avgEntry is the size-weighted mean
\* sum(avgPrice * size) / sum(size) over exactly the contributions with
\* avgPrice > 0 and size > 0, rounded to 2 decimals, and 0 when there is no
\* such contribution; priceChangePct is (curPrice - mean) / mean * 100, rounded
\* to 1 decimal, when the mean and curPrice are both > 0, and 0 otherwise.
C11_AvgEntryIsWeightedMean ==
  ppc = "aggregated" =>
    \A n \in DOMAIN aggregatedPortfolio.positions :
      LET p  == aggregatedPortfolio.positions[n]
          ws == PricedValue(p.traders, Priced(p))
          ts == PricedSize(p.traders, Priced(p))
      IN  /\ IF Priced(p) = {} THEN p.avgEntry = 0
             ELSE IsRounded(p.avgEntry, ws, ts)
          /\ IF Priced(p) # {} /\ p.curPrice > 0
               THEN IsRounded(p.priceChangePct,
                              1000 * (p.curPrice * ts - ws), ws)
               ELSE p.priceChangePct = 0

\* The weighted-average case of the specification: one trader holds the
\* outcome twice, avgPrice 0.40 with size 100 and avgPrice 0.60 with size 50,
\* and another holds it with size 7 and no avgPrice and with size 10 at
\* avgPrice 0.50: the mean is 75.00 / 160 = 0.46875, avgEntry is 0.47, and
\* with curPrice 0.60 the change is +28.0 %.
C11_Witness ==
  /\ ppc = "aggregated"
  /\ \E n \in DOMAIN aggregatedPortfolio.positions :
       LET p == aggregatedPortfolio.positions[n] IN
         /\ p.conditionId = "m1" /\ p.outcomeIndex = 1
         /\ Len(p.traders) = 4
         /\ Cardinality(Priced(p)) = 3
         /\ PricedSize(p.traders, Priced(p)) = 160
         /\ p.avgEntry = 47
         /\ p.priceChangePct = 280

\* The aggregates before the min_usd_filter: one per key held by a
\* contributing portfolio.
Unfiltered == AggregateAll(<<>>, traderPortfolios)

\* How many positions the filter removed, and whether one of them carried
\* exposure.
RemovedCount == Len(Unfiltered) - Len(aggregatedPortfolio.positions)
RemovedExposure ==
  \E i \in DOMAIN Unfiltered :
    /\ Unfiltered[i].totalExposure < config.min_usd_filter
    /\ Unfiltered[i].totalExposure > 0

EmittedExposure == SumExposure(aggregatedPortfolio.positions)

\* C12 (as claimed): summary.totalExposure, computed over all positions
\* before the min_usd_filter, is at least the sum of totalExposure over the
\* emitted positions, and equal to it iff no position was removed by the
\* filter.
C12_SummaryEqualIffNoneRemoved ==
  ppc = "aggregated" =>
    /\ aggregatedPortfolio.summary.totalExposure >= EmittedExposure
    /\ (aggregatedPortfolio.summary.totalExposure = EmittedExposure)
         <=> (RemovedCount = 0)

\* C12 (amended): summary.totalExposure is at least the sum of totalExposure
\* over the emitted positions, and equal to it iff every position removed by
\* the filter has totalExposure 0.
C12_SummaryEqualIffNoExposureRemoved ==
  ppc = "aggregated" =>
    /\ aggregatedPortfolio.summary.totalExposure >= EmittedExposure
    /\ (aggregatedPortfolio.summary.totalExposure = EmittedExposure)
         <=> ~RemovedExposure

\* A filter of 5.00 keeps a position of 8.20 and removes one of 3.00: the
\* summary says 11.20, the emitted positions add up to 8.20.
C12_Witness ==
  /\ ppc = "aggregated"
  /\ config.min_usd_filter = 500
  /\ RemovedCount = 1
  /\ RemovedExposure
  /\ aggregatedPortfolio.summary.totalExposure = 1120
  /\ EmittedExposure = 820

\* The largest sum of totalExposure that n of the unfiltered positions reach.
RECURSIVE ExposureOf(_)
ExposureOf(S) ==
  IF S = {} THEN 0
  ELSE LET i == CHOOSE x \in S : TRUE
       IN  Unfiltered[i].totalExposure + ExposureOf(S \ {i})

LargestSum(n) ==
  LET sums == { ExposureOf(S) :
                  S \in { T \in SUBSET DOMAIN Unfiltered : Cardinality(T) <= n } }
  IN  CHOOSE x \in sums : \A y \in sums : y <= x

\* C13: top1Share is the largest position's totalExposure divided by the
\* total exposure over the unfiltered positions, top5Share the sum of the five
\* largest divided by that total, both rounded to 2 decimals and both 0 when
\* there is no position or the total is 0; distinctMarkets is the number of
\* distinct conditionIds among the unfiltered positions.
C13_ConcentrationShares ==
  ppc = "aggregated" =>
    LET summary == aggregatedPortfolio.summary
        total   == ExposureOf(DOMAIN Unfiltered)
    IN  /\ summary.totalExposure = total
        /\ IF total = 0
             THEN summary.top1Share = 0 /\ summary.top5Share = 0
             ELSE /\ IsRounded(summary.top1Share, 100 * LargestSum(1), total)
                  /\ IsRounded(summary.top5Share, 100 * LargestSum(5), total)
        /\ summary.distinctMarkets =
             Cardinality({ Unfiltered[i].conditionId : i \in DOMAIN Unfiltered })

\* Six positions of 4.00, 3.00, 3.00, 2.20, 2.00 and 1.00 in five markets: the
\* largest is 4.00 / 15.20 = 0.26 of the total, the five largest 14.20 / 15.20
\* = 0.93.
C13_Witness ==
  /\ ppc = "aggregated"
  /\ Len(Unfiltered) = 6
  /\ aggregatedPortfolio.summary.totalExposure = 1520
  /\ aggregatedPortfolio.summary.top1Share = 26
  /\ aggregatedPortfolio.summary.top5Share = 93
  /\ aggregatedPortfolio.summary.distinctMarkets = 5

\* C14 (as claimed): running aggregatePortfolios twice on identical inputs
\* (the same traderPortfolios, config and activity) yields identical output,
\* change24h and the summary included.
C14_AggregateTwiceIdentical ==
  ppc = "again" => secondCall = aggregatedPortfolio

\* The trade events of the feed (type TRADE or no type) that are at most span
\* seconds old at the last clock reading.
AgedTrades(span) ==
  { i \in DOMAIN activity :
      /\ ~Has(activity[i], "type") \/ activity[i].type \in {"", "TRADE"}
      /\ clock - activity[i].timestamp <= span }

RECURSIVE SumDelta(_)
SumDelta(S) ==
  IF S = {} THEN 0
  ELSE LET i == CHOOSE x \in S : TRUE
       IN  Delta(activity[i]) + SumDelta(S \ {i})

\* processRecentChanges has returned and the clock was not read since.
Windowed ==
  \/ ppc \in {"windowed", "computed"}
  \/ ppc = "exited" /\ failedAt \in {"none", "writing"}

\* C15: the window buckets of processRecentChanges are cumulative: an event
\* adds its delta to exactly the windows whose length its age does not
\* exceed, so windowSummaries holds, for 1h, 6h, 24h, 7d and 30d, the sum of
\* the deltas of the trade events at most 3600, 21600, 86400, 604800 and
\* 2592000 seconds old, and every event counted in a shorter window is
\* counted in every longer one.
C15_WindowsCumulative ==
  Windowed =>
    /\ recentChanges.windowSummaries["1h"]  = SumDelta(AgedTrades(3600))
    /\ recentChanges.windowSummaries["6h"]  = SumDelta(AgedTrades(21600))
    /\ recentChanges.windowSummaries["24h"] = SumDelta(AgedTrades(86400))
    /\ recentChanges.windowSummaries["7d"]  = SumDelta(AgedTrades(604800))
    /\ recentChanges.windowSummaries["30d"] = SumDelta(AgedTrades(2592000))
    /\ AgedTrades(3600) \subseteq AgedTrades(21600)
    /\ AgedTrades(21600) \subseteq AgedTrades(86400)
    /\ AgedTrades(86400) \subseteq AgedTrades(604800)
    /\ AgedTrades(604800) \subseteq AgedTrades(2592000)

\* A sale of 2.00 half an hour ago, a purchase of 3.00 two hours ago and a
\* purchase of 9.00 three days ago: the purchase made two hours ago is in the
\* 6h, 24h, 7d and 30d sums and not in the 1h sum.
C15_Witness ==
  /\ ppc = "windowed"
  /\ activity = <<EvSell, EvBuy, EvOld>>
  /\ clock - EvBuy.timestamp = 7200
  /\ recentChanges.windowSummaries["1h"] = 0 - 200
  /\ recentChanges.windowSummaries["6h"] = 100
  /\ recentChanges.windowSummaries["24h"] = 100
  /\ recentChanges.windowSummaries["7d"] = 1000
  /\ recentChanges.windowSummaries["30d"] = 1000

\* The positions in the feed of the events of type TRADE or without a type,
\* and the k-th of them in input order.
KeptEvents ==
  { i \in DOMAIN activity :
      ~Has(activity[i], "type") \/ activity[i].type \in {"", "TRADE"} }
KeptEvent(k) ==
  CHOOSE i \in KeptEvents : Cardinality({ j \in KeptEvents : j <= i }) = k

\* C16: processRecentChanges emits exactly one ChangeRecord for every input
\* event whose type is TRADE or absent, in input order, and none for any
\* other event; the action of a record depends only on the side of its event:
\* BUY gives increased, SELL gives decreased, anything else unknown.
C16_OneRecordPerTrade ==
  Windowed =>
    /\ Len(recentChanges.changes) = Cardinality(KeptEvents)
    /\ \A k \in DOMAIN recentChanges.changes :
         LET c == recentChanges.changes[k]
             a == activity[KeptEvent(k)]
         IN  /\ c.timestamp = a.timestamp
             /\ c.conditionId = a.conditionId
             /\ c.traderAddress = a.traderAddress
             /\ c.action = CASE a.side = "BUY" -> "increased"
                             [] a.side = "SELL" -> "decreased"
                             [] OTHER -> "unknown"

\* A feed of a sale without a type, a REDEEM and a purchase of type TRADE:
\* two records, the sale first, and none for the REDEEM.
C16_Witness ==
  /\ ppc = "windowed"
  /\ activity = <<EvSell, EvRedeem, EvBuy>>
  /\ Len(recentChanges.changes) = 2
  /\ recentChanges.changes[1].action = "decreased"
  /\ recentChanges.changes[1].timestamp = EvSell.timestamp
  /\ recentChanges.changes[2].action = "increased"
  /\ recentChanges.changes[2].timestamp = EvBuy.timestamp

\* The signed amount the claim gives an event: + for BUY, - for SELL.
SignedAmount(a) ==
  CASE a.side = "BUY" -> TradeAmount(a)
    [] a.side = "SELL" -> 0 - TradeAmount(a)
    [] OTHER -> 0

RECURSIVE SumSigned(_)
SumSigned(S) ==
  IF S = {} THEN 0
  ELSE LET i == CHOOSE x \in S : TRUE
       IN  SignedAmount(activity[i]) + SumSigned(S \ {i})

\* C17 (as claimed): change24h of every emitted AggregatedPosition is the sum
\* of the signed deltas (BUY +usdcSize, SELL -usdcSize) of exactly the
\* events of type TRADE or without a type, at most 24 hours old, whose
\* conditionId-outcomeIndex key is the position's key; 0 when there is none.
C17_Change24hIsSumOfTrades ==
  ppc = "aggregated" =>
    \A n \in DOMAIN aggregatedPortfolio.positions :
      LET p == aggregatedPortfolio.positions[n] IN
        p.change24h =
          SumSigned({ i \in AgedTrades(86400) :
                        EventKey(activity[i]) = <<p.conditionId, p.outcomeIndex>> })

\* The aggregated_portfolio document, once written.
WrittenAs(name) == { i \in DOMAIN written : written[i].name = name }

\* C18: summary.netFlow24h is the placeholder 0 when aggregatePortfolios
\* has returned, and once computeAll has returned, and in the
\* aggregated_portfolio document that main writes, it is windowSummaries['24h']
\* of the processRecentChanges output of the same run, which is also what the
\* recent_changes document of the run holds.
C18_NetFlowMergedAfterWindowing ==
  /\ ppc \in {"aggregated", "windowed"} =>
       aggregatedPortfolio.summary.netFlow24h = 0
  /\ ppc = "computed" =>
       aggregatedPortfolio.summary.netFlow24h =
         recentChanges.windowSummaries["24h"]
  /\ \A i \in WrittenAs("aggregated_portfolio") :
       /\ written[i].data.summary.netFlow24h =
            recentChanges.windowSummaries["24h"]
       /\ \A j \in WrittenAs("recent_changes") :
            written[i].data.summary.netFlow24h =
              written[j].data.windowSummaries["24h"]

\* A run over the feed of a sale of 2.00 and a purchase of 3.00 within the
\* day: both documents are written and both say +1.00, while the 1h sum is
\* -2.00.
C18_Witness ==
  /\ ppc = "exited"
  /\ exitCode = 0
  /\ \E i \in WrittenAs("aggregated_portfolio") :
       written[i].data.summary.netFlow24h = 100
  /\ \E j \in WrittenAs("recent_changes") :
       /\ written[j].data.windowSummaries["24h"] = 100
       /\ written[j].data.windowSummaries["1h"] = 0 - 200

\* C19: a run whose computation throws past the fetch layer (while loading,
\* building the portfolios, aggregating or windowing) ends with a non-zero
\* exit code and has written none of the four documents; a document is
\* written only after computeAll has returned all four, and exit code 0 means
\* that all four were written, in the order of main.
C19_NoPartialOutput ==
  /\ failedAt \in {"loading", "portfolios", "aggregation", "windowing"} =>
       /\ ppc = "exited"
       /\ exitCode # NoExit /\ exitCode # 0
       /\ written = <<>>
  /\ written # <<>> =>
       /\ ppc = "computed" \/ (ppc = "exited" /\ failedAt \in {"none", "writing"})
       /\ \A i \in DOMAIN written : written[i].name = DocumentOrder[i]
       /\ written[1].data = metadata
  /\ exitCode = 0 =>
       /\ failedAt = "none"
       /\ [i \in DOMAIN written |-> written[i].name] = DocumentOrder

\* processRecentChanges throws after aggregatePortfolios has returned a
\* portfolio with positions: exit code 1, nothing written.
C19_Witness ==
  /\ ppc = "exited"
  /\ failedAt = "windowing"
  /\ aggregatedPortfolio.positions # <<>>
  /\ exitCode = 1
  /\ written = <<>>

(***************************************************************************)
(*            calculatePositionChanges (docs/assets/app.js)                *)
(* The page keeps recent_changes.json in the module variable               *)
(* recentChanges and reads it each time a position row is rendered.        *)
(***************************************************************************)

MaxCalls == 2     \* calculatePositionChanges calls in one behaviour

\* What Date.now() / 1000 may read while the page is open.
ViewReadings == {Now + 1800, Now + 3600}

\* The documents fetchJSON('recent_changes.json') may return.
ChangeDocuments == { processRecentChanges(f, Now) : f \in ActivityFeeds }

\* if (c.conditionId !== conditionId) continue;
\* if (c.outcomeIndex !== outcomeIndex && !(...Yes/1 or No/0...)) continue;
MatchesPosition(c, conditionId, outcomeIndex) ==
  /\ c.conditionId = conditionId
  /\ \/ c.outcomeIndex = outcomeIndex
     \/ c.outcome = "Yes" /\ outcomeIndex = 1
     \/ c.outcome = "No" /\ outcomeIndex = 0

\* traderChanges.set(trader, (traderChanges.get(trader) || 0) + delta) on a
\* Map kept as the sequence of its entries in insertion order
AddTraderChange(entries, trader, delta) ==
  IF \E i \in DOMAIN entries : entries[i].trader = trader
    THEN [i \in DOMAIN entries |->
            IF entries[i].trader = trader
              THEN [entries[i] EXCEPT !.change = @ + delta] ELSE entries[i]]
    ELSE Append(entries, [trader |-> trader, change |-> delta])

\* The loop over recentChanges.changes for the window that starts at cutoff:
\* the entries of the window's Map.
RECURSIVE TraderChanges(_, _, _)
TraderChanges(entries, cs, cutoff) ==
  IF cs = <<>> THEN entries
  ELSE TraderChanges(
         IF Head(cs).timestamp >= cutoff
           THEN AddTraderChange(entries, Head(cs).trader, Head(cs).delta)
           ELSE entries,
         Tail(cs), cutoff)

\* details.sort((a, b) => Math.abs(b.change) - Math.abs(a.change))
RECURSIVE InsertByAbs(_, _)
InsertByAbs(sorted, e) ==
  IF sorted = <<>> THEN <<e>>
  ELSE IF Abs(Head(sorted).change) >= Abs(e.change)
    THEN <<Head(sorted)>> \o InsertByAbs(Tail(sorted), e)
    ELSE <<e>> \o sorted

RECURSIVE SortByAbs(_, _)
SortByAbs(sorted, rest) ==
  IF rest = <<>> THEN sorted
  ELSE SortByAbs(InsertByAbs(sorted, Head(rest)), Tail(rest))

RECURSIVE SumChange(_)
SumChange(entries) ==
  IF entries = <<>> THEN 0 ELSE Head(entries).change + SumChange(Tail(entries))

\* The document before loadData has fetched it: let recentChanges = null
NotLoaded == [changes |-> <<>>]

\* The body of the function from given starting totals.
WindowTotals(rc, conditionId, outcomeIndex, now, start) ==
  IF rc = NotLoaded
    THEN [h1 |-> 0, d1 |-> 0, w1 |-> 0,
          h1Details |-> <<>>, d1Details |-> <<>>, w1Details |-> <<>>]
    ELSE
      LET mine == SelectSeq(rc.changes,
                    LAMBDA c : MatchesPosition(c, conditionId, outcomeIndex))
          h == TraderChanges(<<>>, mine, now - 3600)
          d == TraderChanges(<<>>, mine, now - 86400)
          w == TraderChanges(<<>>, mine, now - 7 * 86400)
      IN  [h1 |-> start.h1 + SumChange(h),
           d1 |-> start.d1 + SumChange(d),
           w1 |-> start.w1 + SumChange(w),
           h1Details |-> SortByAbs(<<>>, h),
           d1Details |-> SortByAbs(<<>>, d),
           w1Details |-> SortByAbs(<<>>, w)]

\* let h1 = 0, d1 = 0, w1 = 0: the totals are locals of the call.  The
\* variant keeps them between calls and starts from what the last call left.
KeepsTotals(rc, conditionId, outcomeIndex, now) ==
  WindowTotals(rc, conditionId, outcomeIndex, now,
               IF callLog = <<>> THEN [h1 |-> 0, d1 |-> 0, w1 |-> 0]
               ELSE callLog[Len(callLog)].result)

\* function calculatePositionChanges(conditionId, outcomeIndex), rc being the
\* module variable recentChanges and now the clock reading of the call
calculatePositionChanges(rc, conditionId, outcomeIndex, now) ==
  WindowTotals(rc, conditionId, outcomeIndex, now,
               [h1 |-> 0, d1 |-> 0, w1 |-> 0])

\* The page is open and has fetched nothing yet.
InitView ==
  /\ recentChanges = NotLoaded
  /\ loaded = NotLoaded
  /\ callLog = <<>>
  /\ clock = Now
  /\ traders = <<>>
  /\ config = [min_usd_filter |-> 0]
  /\ positionsResults = <<>>
  /\ valuesResults = <<>>
  /\ traderPortfolios = <<>>
  /\ activity = <<>>
  /\ aggregatedPortfolio = [positions |-> <<>>]
  /\ ppc = "idle"
  /\ metadata = [trader_count |-> 0]
  /\ written = <<>>
  /\ exitCode = NoExit
  /\ failedAt = "none"
  /\ secondCall = [positions |-> <<>>]
  /\ RetryIdle
  /\ BatchIdle
  /\ LoadIdle

\* A row is rendered: calculatePositionChanges(pos.conditionId, outcomeIndex).
\* The function assigns to locals only.
Query(conditionId, outcomeIndex) ==
  /\ Len(callLog) < MaxCalls
  /\ \E now \in ViewReadings :
       /\ now >= clock
       /\ clock' = now
       /\ callLog' =
            Append(callLog,
                   [conditionId |-> conditionId, outcomeIndex |-> outcomeIndex,
                    now |-> now, changes |-> recentChanges.changes,
                    result |-> calculatePositionChanges(recentChanges,
                                 conditionId, outcomeIndex, now)])
  /\ UNCHANGED <<traders, config, positionsResults, valuesResults,
                 traderPortfolios, activity, aggregatedPortfolio, ppc,
                 mainVars, loaded, retryVars, batchVars,
                 loadVars>>

\* loadData fetches the documents again.
LoadData ==
  /\ \E doc \in ChangeDocuments :
       /\ doc # recentChanges
       /\ recentChanges' = doc
       /\ loaded' = doc
  /\ UNCHANGED <<runVars, metadata, written, exitCode, failedAt, secondCall,
                 callLog, retryVars, batchVars,
                 loadVars>>

NextView ==
  \/ \E c \in {"m1", "m2"}, o \in {0, 1} : Query(c, o)
  \/ LoadData

SpecView == InitView /\ [][NextView]_vars

Encounters(p) ==
  { <<j, n>> \in (DOMAIN traderPortfolios) \X (1..8) :
      /\ Contributes(traderPortfolios[j])
      /\ n \in Matching(traderPortfolios[j], p) }

Earlier(a, b) == a[1] < b[1] \/ (a[1] = b[1] /\ a[2] < b[2])

FirstEncounter(p) ==
  CHOOSE e \in Encounters(p) : \A f \in Encounters(p) : e = f \/ Earlier(e, f)

KeyOfEmitted(p) == <<p.conditionId, p.outcomeIndex>>

\* C22: the positions array is ordered by totalExposure descending, positions
\* of equal totalExposure stand in the order in which their keys were first
\* met, and the array holds exactly the aggregated positions whose
\* totalExposure is at least min_usd_filter, each once.
C22_SortedFilteredPositions ==
  ppc = "aggregated" =>
    LET P == aggregatedPortfolio.positions IN
      /\ \A i, j \in DOMAIN P :
           i < j =>
             \/ P[i].totalExposure > P[j].totalExposure
             \/ /\ P[i].totalExposure = P[j].totalExposure
                /\ Earlier(FirstEncounter(P[i]), FirstEncounter(P[j]))
      /\ { KeyOfEmitted(P[i]) : i \in DOMAIN P }
           = { Unfiltered[i].key :
                 i \in { k \in DOMAIN Unfiltered :
                           Unfiltered[k].totalExposure >= config.min_usd_filter } }
      /\ \A i, j \in DOMAIN P :
           KeyOfEmitted(P[i]) = KeyOfEmitted(P[j]) => i = j

\* Two emitted positions of 3.00 each stand next to one another while the
\* filter of 5.00 has removed nothing of theirs, or a filter has removed a
\* position and two equal ones remain.
C22_Witness ==
  /\ ppc = "aggregated"
  /\ LET P == aggregatedPortfolio.positions IN
       /\ \E i \in DOMAIN P :
            /\ i + 1 \in DOMAIN P
            /\ P[i].totalExposure = P[i + 1].totalExposure
            /\ P[i].totalExposure > 0
            /\ FirstEncounter(P[i])[1] # FirstEncounter(P[i + 1])[1]
       /\ RemovedCount > 0

\* ---- C23: the current price of an aggregation key ----

\* The contributions to the emitted position p that carry a price above 0.
PricedEncounters(p) ==
  { e \in Encounters(p) :
      LET pos == traderPortfolios[e[1]].positions[e[2]] IN
        "curPrice" \in pos.has /\ pos.curPrice > 0 }

LastPricedEncounter(p) ==
  CHOOSE e \in PricedEncounters(p) :
    \A f \in PricedEncounters(p) : e = f \/ Earlier(f, e)

\* C23: the curPrice of each aggregation key is the curPrice of the last
\* contribution, in trader iteration order, whose curPrice is above 0, and 0
\* when no contribution has one; a contribution with curPrice 0 does not
\* replace an earlier price.
C23_CurPriceIsLastPositive ==
  ppc = "aggregated" =>
    \A i \in DOMAIN aggregatedPortfolio.positions :
      LET p == aggregatedPortfolio.positions[i] IN
        p.curPrice =
          IF PricedEncounters(p) = {} THEN 0
          ELSE LET e == LastPricedEncounter(p)
               IN  traderPortfolios[e[1]].positions[e[2]].curPrice

\* Four contributions to one key priced 0.30, 0.60, 0.45 and 0, in this
\* order: the key is priced 0.45.
C23_Witness ==
  /\ ppc = "aggregated"
  /\ \E i \in DOMAIN aggregatedPortfolio.positions :
       LET p == aggregatedPortfolio.positions[i] IN
         /\ Len(p.traders) = 4
         /\ p.traders[1].curPrice = 30
         /\ p.traders[2].curPrice = 60
         /\ p.traders[3].curPrice = 45
         /\ p.traders[4].curPrice = 0
         /\ p.curPrice = 45

\* ---- C24: aggregation key and outcome of each emitted position ----

\* The outcome index the key of a position is built from: the explicit field
\* when present, else 1 for Yes and 0 otherwise.
ClaimedIndex(pos) ==
  IF "outcomeIndex" \in pos.has THEN pos.outcomeIndex
  ELSE IF "outcome" \in pos.has /\ pos.outcome = "Yes" THEN 1 ELSE 0

\* C24 (as claimed): each position of a contributing portfolio is aggregated
\* under its conditionId and its outcome index (explicit when present, else 1
\* for Yes and 0 otherwise, the index deciding when both are given and
\* disagree), and in every emitted position the outcome string and the
\* outcomeIndex agree: Yes with 1, No with 0.
C24_KeyAndOutcomeAgree ==
  ppc = "aggregated" =>
    /\ config.min_usd_filter = 0 =>
         \A j \in DOMAIN traderPortfolios :
           Contributes(traderPortfolios[j]) =>
             \A n \in DOMAIN traderPortfolios[j].positions :
               LET pos == traderPortfolios[j].positions[n] IN
                 \E i \in DOMAIN aggregatedPortfolio.positions :
                   LET p == aggregatedPortfolio.positions[i] IN
                     /\ p.conditionId = pos.conditionId
                     /\ p.outcomeIndex = ClaimedIndex(pos)
                     /\ \E m \in DOMAIN p.traders :
                          p.traders[m].address = traderPortfolios[j].address
    /\ \A i \in DOMAIN aggregatedPortfolio.positions :
         LET p == aggregatedPortfolio.positions[i] IN
           \/ p.outcome = "Yes" /\ p.outcomeIndex = 1
           \/ p.outcome = "No" /\ p.outcomeIndex = 0

\* The first conjunct alone: the part of C24 about the key.
C24KeyPart ==
  (ppc = "aggregated" /\ config.min_usd_filter = 0) =>
    \A j \in DOMAIN traderPortfolios :
      Contributes(traderPortfolios[j]) =>
        \A n \in DOMAIN traderPortfolios[j].positions :
          LET pos == traderPortfolios[j].positions[n] IN
            \E i \in DOMAIN aggregatedPortfolio.positions :
              /\ aggregatedPortfolio.positions[i].conditionId = pos.conditionId
              /\ aggregatedPortfolio.positions[i].outcomeIndex = ClaimedIndex(pos)

\* ---- C25: the exposure of a position ----

\* Amounts are in hundredths of a dollar, prices in hundredths, sizes in
\* whole shares: size * curPrice is an amount, a bare size is worth 100 each.
Magnitude(x) == IF x < 0 THEN 0 - x ELSE x

ClaimedExposure(pos) ==
  CASE "currentValue" \in pos.has -> Magnitude(pos.currentValue)
    [] "currentValue" \notin pos.has /\ {"size", "curPrice"} \subseteq pos.has
         -> Magnitude(pos.size * pos.curPrice)
    [] "currentValue" \notin pos.has /\ "size" \in pos.has
         /\ "curPrice" \notin pos.has -> Magnitude(pos.size * 100)
    [] OTHER -> 0

\* The entries trader a has in the emitted position p, and the positions of
\* the portfolio q under the key of p, both in list order.
EntriesOf(p, a) == SelectSeq(p.traders, LAMBDA t : t.address = a)
PositionsUnder(q, p) ==
  SelectSeq(q.positions,
            LAMBDA pos : /\ pos.conditionId = p.conditionId
                         /\ ClaimedIndex(pos) = p.outcomeIndex)

\* C25: the exposure recorded for a position is never negative and is, by
\* priority, |currentValue| when currentValue is present, else
\* |size * curPrice| when both are present, else |size| when size is present,
\* else 0.
C25_ExposurePriority ==
  ppc = "aggregated" =>
    \A i \in DOMAIN aggregatedPortfolio.positions :
      \A j \in DOMAIN traderPortfolios :
        Contributes(traderPortfolios[j]) =>
          LET p == aggregatedPortfolio.positions[i]
              q == traderPortfolios[j]
              mine == EntriesOf(p, q.address)
              theirs == PositionsUnder(q, p)
          IN  /\ Len(mine) = Len(theirs)
              /\ \A k \in DOMAIN mine :
                   /\ mine[k].exposure >= 0
                   /\ mine[k].exposure = ClaimedExposure(theirs[k])

\* One run shows the four cases: a value of -5.00 counted as 5.00, 4 shares
\* at 0.55 counted as 2.20, 3 shares without price counted as 3.00, and a
\* position without any of the fields counted as 0.
C25_Witness ==
  /\ ppc = "aggregated"
  /\ config.min_usd_filter = 0
  /\ traderPortfolios[1].positions = <<PosB, PosC>>
  /\ traderPortfolios[2].positions = <<PosD, PosE>>
  /\ \A j \in DOMAIN traderPortfolios : Contributes(traderPortfolios[j])
  /\ { aggregatedPortfolio.positions[i].traders[1].exposure :
         i \in DOMAIN aggregatedPortfolio.positions } = {500, 220, 300, 0}

\* ---- C29: the sign of a change record and its action ----

\* The records of recentChanges at most span seconds old whose action is
\* known.
KnownRecords(span) ==
  { n \in DOMAIN recentChanges.changes :
      /\ recentChanges.changes[n].action # "unknown"
      /\ clock - recentChanges.changes[n].timestamp <= span }

RECURSIVE SumRecords(_)
SumRecords(S) ==
  IF S = {} THEN 0
  ELSE LET n == CHOOSE x \in S : TRUE
       IN  recentChanges.changes[n].delta + SumRecords(S \ {n})

\* C29 (as claimed): in every change record the sign of delta agrees with the
\* action, positive only when the action is increased and negative only when
\* it is decreased, so an event whose side is neither BUY nor SELL (action
\* unknown) moves no window sum.
C29_DeltaSignAgreesWithAction ==
  Windowed =>
    /\ \A n \in DOMAIN recentChanges.changes :
         LET c == recentChanges.changes[n] IN
           /\ c.delta > 0 => c.action = "increased"
           /\ c.delta < 0 => c.action = "decreased"
    /\ \A k \in DOMAIN WindowNames :
         recentChanges.windowSummaries[WindowNames[k]]
           = SumRecords(KnownRecords(WindowSpan(WindowNames[k])))

\* The same with the events of unknown action left out of the run.
C29NoUnknown ==
  (Windowed /\ \A n \in DOMAIN recentChanges.changes :
                 recentChanges.changes[n].action # "unknown")
    => C29_DeltaSignAgreesWithAction

\* ---- C27: termination of batchFetch ----

\* The scheduling loop runs to its next suspension, the 100 ms timer fires,
\* and every call of fetchFn settles some time while the loop is suspended.
SpecBatchFair ==
  /\ InitBatch
  /\ [][NextBatch]_vars
  /\ WF_vars(\E throws \in BOOLEAN : processNext(throws))
  /\ WF_vars(Yield)
  /\ WF_vars(Wake)
  /\ WF_vars(Return)
  /\ \A i \in 1..MaxAddrs : SF_vars(\E ok \in BOOLEAN : Settle(i, ok))

\* The addresses handed to fetchFn so far are the head of the input list, in
\* input order.
FifoDispatch ==
  /\ Len(tasks) <= Len(addresses)
  /\ \A i \in DOMAIN tasks : tasks[i].address = addresses[i]
  /\ queue = SubSeq(addresses, Len(tasks) + 1, Len(addresses))

\* C27 (as claimed): for every address list and every concurrency value, if
\* each call of fetchFn eventually settles, the scheduling loop eventually
\* finds the queue and the in-flight set empty and returns; the addresses are
\* dispatched in input order.
C27_BatchTerminates == []FifoDispatch /\ <>(bpc = "returned")

\* The same for a concurrency of at least 1.
C27TerminatesWhenPositive ==
  []FifoDispatch /\ (concurrency >= 1 => <>(bpc = "returned"))

\* ---- C28: a change record and the outcomes of its market ----

RECURSIVE SumRecordDeltas(_)
SumRecordDeltas(cs) ==
  IF cs = <<>> THEN 0 ELSE Head(cs).delta + SumRecordDeltas(Tail(cs))

\* The records of the document cs on market conditionId, at most a week old
\* at time now, that calculatePositionChanges counts for one outcome at least.
CountedOnce(cs, conditionId, now) ==
  SelectSeq(cs, LAMBDA c :
    /\ c.timestamp >= now - 7 * 86400
    /\ \/ MatchesPosition(c, conditionId, 0)
       \/ MatchesPosition(c, conditionId, 1))

\* Two calls on the same document, at the same time, for the two outcomes of
\* one market.
BothOutcomes(k, l) ==
  /\ callLog[k].conditionId = callLog[l].conditionId
  /\ callLog[k].changes = callLog[l].changes
  /\ callLog[k].now = callLog[l].now
  /\ callLog[k].outcomeIndex = 0
  /\ callLog[l].outcomeIndex = 1

\* C28 (as claimed): calculatePositionChanges attributes every change record
\* of a market to at most one of its outcomes: no record is counted in the
\* window sums of outcomeIndex 0 and of outcomeIndex 1, so the week sums of
\* the two outcomes add up to the deltas of the counted records, each taken
\* once.
C28_RecordCountsForOneOutcome ==
  \A k, l \in DOMAIN callLog :
    BothOutcomes(k, l) =>
      /\ \A n \in DOMAIN callLog[k].changes :
           ~ /\ MatchesPosition(callLog[k].changes[n], callLog[k].conditionId, 0)
             /\ MatchesPosition(callLog[k].changes[n], callLog[k].conditionId, 1)
      /\ callLog[k].result.w1 + callLog[l].result.w1
           = SumRecordDeltas(CountedOnce(callLog[k].changes,
                                         callLog[k].conditionId, callLog[k].now))

\* The same for documents whose records give an outcome string and an
\* outcomeIndex that agree, or only one of the two.
C28WhenConsistent ==
  \A k, l \in DOMAIN callLog :
    (/\ BothOutcomes(k, l)
     /\ \A n \in DOMAIN callLog[k].changes :
          LET c == callLog[k].changes[n] IN
            \/ c.outcomeIndex = Undefined
            \/ c.outcome = (IF c.outcomeIndex = 0 THEN "No" ELSE "Yes"))
      => C28_RecordCountsForOneOutcome

(***************************************************************************)
(*                 loadConfig and the options it yields                    *)
(***************************************************************************)

\* config.json does not exist.
Absent ==
  [exists |-> FALSE, concurrency_limit |-> 0, retry_attempts |-> 0,
   retry_base_delay_ms |-> 0, max_recent_events |-> 0, min_usd_filter |-> 0]

\* The option values a config.json may hold; 0 stands for an option the
\* file does not set.
ConfigFiles ==
  [exists : {TRUE},
   concurrency_limit : {0, 2},
   retry_attempts : 0..MaxRetryCfg,
   retry_base_delay_ms : 0..MaxBaseCfg,
   max_recent_events : {0, 2},
   min_usd_filter : MinUsdFilters]

\* export function loadConfig(): the parsed file, or the built-in object
\* (which has no retry options)
loadConfig(file) ==
  IF file.exists
    THEN [o \in DOMAIN file \ {"exists"} |-> file[o]]
  ELSE [concurrency_limit |-> 5,
        retry_attempts |-> 0,
        retry_base_delay_ms |-> 0,
        max_recent_events |-> 200,
        min_usd_filter |-> 50]

\* const concurrency = config.concurrency_limit || 5
concurrencyOf(c) == IF c.concurrency_limit = 0 THEN 5 ELSE c.concurrency_limit

\* const maxEvents = config.max_recent_events || 200
maxEventsOf(c) == IF c.max_recent_events = 0 THEN 200 ELSE c.max_recent_events

\* config.min_usd_filter || 0
minUsdFilterOf(c) == c.min_usd_filter

InitConfig ==
  /\ configFile \in ConfigFiles \cup {Absent}
  /\ effective = "none"
  /\ activityResults = <<>>
  /\ fetchKind = "none"
  /\ RunIdle
  /\ RetryIdle
  /\ BatchIdle
  /\ ViewIdle

\* const config = loadConfig() in computeAll
LoadConfig ==
  /\ ppc = "idle"
  /\ config' = loadConfig(configFile)
  /\ ppc' = "configured"
  /\ UNCHANGED <<traders, positionsResults, valuesResults, traderPortfolios,
                 activity, aggregatedPortfolio, clock, mainVars, retryVars,
                 batchVars, viewVars, loadVars>>

\* The engine reads its options where it uses them.
ReadOptions ==
  /\ ppc = "configured"
  /\ effective' = [concurrency |-> concurrencyOf(config),
                   retry_attempts |-> maxRetries(config),
                   retry_base_delay_ms |-> baseDelay(config),
                   max_recent_events |-> maxEventsOf(config),
                   min_usd_filter |-> minUsdFilterOf(config)]
  /\ ppc' = "running"
  /\ UNCHANGED <<traders, config, positionsResults, valuesResults,
                 traderPortfolios, activity, aggregatedPortfolio, clock,
                 mainVars, retryVars, batchVars, viewVars, configFile,
                 activityResults, fetchKind>>

NextConfig == LoadConfig \/ ReadOptions

SpecConfig == InitConfig /\ [][NextConfig]_vars

\* Whether config.json leaves the option unset.
Unset(option) == ~configFile.exists \/ configFile[option] = 0

\* C21 (as claimed): when a configuration option is unset the engine uses
\* the documented default: concurrency 5, retry attempts 3, retry base delay
\* 1000 ms, max recent events 200, min USD filter 0.
C21_UnsetOptionsUseDefaults ==
  ppc = "running" =>
    /\ Unset("concurrency_limit") => effective.concurrency = 5
    /\ Unset("retry_attempts") => effective.retry_attempts = 3
    /\ Unset("retry_base_delay_ms") => effective.retry_base_delay_ms = 1000
    /\ Unset("max_recent_events") => effective.max_recent_events = 200
    /\ Unset("min_usd_filter") => effective.min_usd_filter = 0

\* The same for runs that find a config.json.
C21WithConfigFile ==
  (ppc = "running" /\ configFile.exists) => C21_UnsetOptionsUseDefaults

(***************************************************************************)
(*        The fetch functions batchFetch is handed, and their config       *)
(***************************************************************************)

\* The default of a config parameter: config = {}
NoConfig == [retry_attempts |-> 0, retry_base_delay_ms |-> 0]

\* Each fetch function is modelled by the config it hands to fetchWithRetry.
\* fetchWalletPositions(address, limit = 1000, config = {})
fetchWalletPositions(limit, cfg) == cfg
\* fetchWalletActivity(address, since = null, limit = 100, config = {})
fetchWalletActivity(since, limit, cfg) == cfg
\* fetchWalletValue(address, config = {})
fetchWalletValue(cfg) == cfg

FetchKinds == {"positions", "value", "activity"}

\* await fetchFn(address, config) in processNext: fetchFn is
\* fetchWalletPositions, fetchWalletValue, or the arrow function
\* (address, cfg) => fetchWalletActivity(address, thirtyDaysAgo, limit, cfg)
fetchFn(kind, second) ==
  CASE kind = "positions" -> fetchWalletPositions(second, NoConfig)
    [] kind = "value"     -> fetchWalletValue(second)
    [] kind = "activity"  -> fetchWalletActivity(Now - 30 * 86400, 500, second)

InitDispatch ==
  /\ config \in [retry_attempts : 0..MaxRetryCfg,
                 retry_base_delay_ms : 0..MaxBaseCfg]
  /\ fetchKind \in FetchKinds
  /\ configFile = "none"
  /\ effective = "none"
  /\ activityResults = <<>>
  /\ traders = <<>>
  /\ positionsResults = <<>>
  /\ valuesResults = <<>>
  /\ traderPortfolios = <<>>
  /\ activity = <<>>
  /\ aggregatedPortfolio = [positions |-> <<>>]
  /\ ppc = "idle"
  /\ clock = 0
  /\ MainIdle
  /\ RetryIdle
  /\ BatchIdle
  /\ ViewIdle

\* processNext calls the fetch function, which calls fetchWithRetry.
Dispatch ==
  /\ fetchKind \in FetchKinds
  /\ rpc = "idle"
  /\ rcfg' = fetchFn(fetchKind, config)
  /\ rpc' = "request"
  /\ UNCHANGED <<attempt, responses, sleeps, rresult, batchVars, runVars,
                 mainVars, viewVars, loadVars>>

NextDispatch == Dispatch \/ NextRetry

SpecDispatch == InitDispatch /\ [][NextDispatch]_vars

\* C30 (as claimed): every upstream request dispatched through batchFetch,
\* for positions, value or activity, reaches fetchWithRetry with the run's
\* config, so the configured retry_attempts and retry_base_delay_ms govern
\* the three kinds of request alike.
C30_RunConfigReachesEveryFetch ==
  rpc # "idle" =>
    /\ maxRetries(rcfg) = maxRetries(config)
    /\ baseDelay(rcfg) = baseDelay(config)
    /\ (rpc = "thrown" /\ \A k \in DOMAIN responses : responses[k].status = 503)
         => Len(responses) = maxRetries(config)

\* The same for the value and activity requests.
C30ValueAndActivity ==
  fetchKind # "positions" => C30_RunConfigReachesEveryFetch

(***************************************************************************)
(*                           fetchAllActivity                              *)
(***************************************************************************)

\* The traders of the activity runs.
FeedTraders == <<"0xa", "0xb", "0xc">>

\* What the activity endpoint may answer for one wallet: lists in the
\* order the upstream chose, not always newest first.
UpstreamFeeds ==
  { <<>>, <<EvSell, EvBuy>>, <<EvOld, EvOdd>>, <<EvBuy, EvCross, EvEdge>> }

\* The values of max_recent_events; 0 stands for the unset option.
MaxRecentEvents == {0, 2, 3}

\* { ...activity, traderAddress: address, traderLabel: ... }
Tagged(a, address) == [a EXCEPT !.traderAddress = address]

\* The loop "for (const [address, result] of activityResults)" over the
\* entries of the result map, in insertion order.
RECURSIVE CombineResults(_)
CombineResults(rs) ==
  IF rs = <<>> THEN <<>>
  ELSE (IF Head(rs).success
          THEN [n \in DOMAIN Head(rs).data |->
                  Tagged(Head(rs).data[n], Head(rs).address)]
          ELSE <<>>)
         \o CombineResults(Tail(rs))

\* allActivity.sort((a, b) => (b.timestamp || 0) - (a.timestamp || 0)): a
\* stable sort
ArrivalOrder(sorted, rest) == sorted \o rest
RECURSIVE InsertRecent(_, _)
InsertRecent(sorted, a) ==
  IF sorted = <<>> THEN <<a>>
  ELSE IF Head(sorted).timestamp >= a.timestamp
    THEN <<Head(sorted)>> \o InsertRecent(Tail(sorted), a)
    ELSE <<a>> \o sorted

RECURSIVE SortRecent(_, _)
SortRecent(sorted, rest) ==
  IF rest = <<>> THEN sorted
  ELSE SortRecent(InsertRecent(sorted, Head(rest)), Tail(rest))

\* The part of fetchAllActivity after the batchFetch has returned.
fetchAllActivity(rs, cfg) ==
  Take(SortRecent(<<>>, CombineResults(rs)), maxEventsOf(cfg))

InitFeed ==
  /\ traders = [i \in DOMAIN FeedTraders |-> [address |-> FeedTraders[i]]]
  /\ config \in [max_recent_events : MaxRecentEvents]
  /\ activityResults = <<>>
  /\ activity = <<>>
  /\ ppc = "built"
  /\ configFile = "none"
  /\ effective = "none"
  /\ fetchKind = "activity"
  /\ positionsResults = <<>>
  /\ valuesResults = <<>>
  /\ traderPortfolios = <<>>
  /\ aggregatedPortfolio = [positions |-> <<>>]
  /\ clock = Now
  /\ MainIdle
  /\ RetryIdle
  /\ BatchIdle
  /\ ViewIdle

\* The activity fetch of trader i settles: results.set(address, ...) in
\* processNext.  The fetches settle in any order.
ActivitySettles(i, ok) ==
  /\ ppc = "built"
  /\ fetchKind = "activity"
  /\ \A k \in DOMAIN activityResults :
       activityResults[k].address # traders[i].address
  /\ \E feed \in UpstreamFeeds :
       activityResults' =
         Append(activityResults,
                [address |-> traders[i].address, success |-> ok,
                 data |-> IF ok THEN feed ELSE <<>>])
  /\ UNCHANGED <<traders, config, positionsResults, valuesResults,
                 traderPortfolios, activity, aggregatedPortfolio, ppc, clock,
                 mainVars, retryVars, batchVars, viewVars, configFile,
                 effective, fetchKind>>

\* batchFetch has returned the map: combine, sort, slice.
CombineActivity ==
  /\ ppc = "built"
  /\ fetchKind = "activity"
  /\ Len(activityResults) = Len(traders)
  /\ activity' = fetchAllActivity(activityResults, config)
  /\ ppc' = "activity"
  /\ UNCHANGED <<traders, config, positionsResults, valuesResults,
                 traderPortfolios, aggregatedPortfolio, clock, mainVars,
                 retryVars, batchVars, viewVars, loadVars>>

NextFeed ==
  \/ \E i \in DOMAIN traders, ok \in BOOLEAN : ActivitySettles(i, ok)
  \/ CombineActivity

SpecFeed == InitFeed /\ [][NextFeed]_vars

\* ---- C26: the activity list handed to aggregation and windowing ----

\* The events of the traders whose activity fetch succeeded, each with the
\* address it was fetched for.
FetchedEvents ==
  UNION { { Tagged(activityResults[k].data[n], activityResults[k].address) :
              n \in DOMAIN activityResults[k].data } :
          k \in { j \in DOMAIN activityResults : activityResults[j].success } }

MaxEventsKept ==
  IF config.max_recent_events = 0 THEN 200 ELSE config.max_recent_events

\* C26: the activity list handed to aggregation and windowing is ordered by
\* timestamp descending whatever the order in which the fetches completed,
\* holds at most max_recent_events events, and these are the most recent
\* among all successfully fetched events; the events of a trader whose
\* activity fetch failed are absent, and the failure does not fail the run.
C26_ActivityMostRecentFirst ==
  ppc = "activity" =>
    LET kept == { activity[i] : i \in DOMAIN activity } IN
      /\ \A i, j \in DOMAIN activity :
           i < j => activity[i].timestamp >= activity[j].timestamp
      /\ Len(activity) <= MaxEventsKept
      /\ Cardinality(kept) = Len(activity)
      /\ kept \subseteq FetchedEvents
      /\ Len(activity) = IF Cardinality(FetchedEvents) < MaxEventsKept
                           THEN Cardinality(FetchedEvents) ELSE MaxEventsKept
      /\ \A a \in FetchedEvents \ kept :
           \A b \in kept : b.timestamp >= a.timestamp
      /\ \A k \in DOMAIN activityResults :
           ~activityResults[k].success =>
             \A i \in DOMAIN activity :
               activity[i].traderAddress # activityResults[k].address

\* The fetches settle in the order 0xc, 0xb, 0xa; the one of 0xb failed; 0xc
\* answered an event three days old before one ten minutes old and 0xa two
\* newer ones; of the four events fetched the list keeps the two most
\* recent, newest first.
C26_Witness ==
  /\ ppc = "activity"
  /\ config.max_recent_events = 2
  /\ Len(activityResults) = 3
  /\ activityResults[1] =
       [address |-> "0xc", success |-> TRUE, data |-> <<EvOld, EvOdd>>]
  /\ activityResults[2] = [address |-> "0xb", success |-> FALSE, data |-> <<>>]
  /\ activityResults[3] =
       [address |-> "0xa", success |-> TRUE, data |-> <<EvSell, EvBuy>>]
  /\ activity = <<Tagged(EvOdd, "0xc"), Tagged(EvSell, "0xa")>>

=============================================================================
